---- MODULE Spec2Model ----
(***************************************************************************)
(* A model of arqr: the binarizer's threshold routine (bitmap.rs), the     *)
(* finder-pattern scanner and the corner resolver (target.rs), and the     *)
(* rectifier (bitmap.rs, lib.rs).  Each component is a pure function of    *)
(* its input; it is modelled as a small state machine whose initial state  *)
(* draws the input from a bounded set and whose actions run the code.      *)
(***************************************************************************)
EXTENDS Integers, Sequences, FiniteSets, TLC

VARIABLES
    \* ---- binarizer: u8_histo_to_threshold (bitmap.rs:31-72)
    histo,        \* the U8Histo argument (its non-empty buckets)
    thresh, new_thresh,
    black_sum, black_cnt, white_sum, white_cnt,
    bin_pc,       \* "idle" | "start" | "loop" | "done" | "panic"
    bin_out,      \* the returned u8 (meaningful when bin_pc = "done")
    \* ---- marker scanner: find_pos_targets (target.rs:204-300)
    img,            \* the Bitmap argument: [data, width, height]
    scan_y,         \* index of the next row the row loop takes
    ratio_buf,      \* FixedBuffer<f32, 4>
    x_buf,          \* FixedBuffer<u32, 6>
    targets,        \* Vec<Target<u32>>
    active_targets, \* Vec<usize>
    scan_pc,        \* "idle" | "start" | "rows" | "done" | "panic"
    scan_skipped,   \* history: the candidates that the active set ruled out,
                    \* as [y, start_x, x, active]
    scan_tried,     \* history: the candidates handed to confirm_col
    \* ---- corner resolver: pick_corners (target.rs:326-406) within scan
    markers,        \* the Vec<Target<u32>> given to pick_corners
    bbox,           \* Option<[Point<f64>; 3]>
    code_img,       \* whether ScanResult.code_img is "some" or "none"
    vectors,        \* whether ScanResult.vectors is "some" or "none"
    corner_pc,      \* "idle" | "start" | "picked" | "done"
    \* ---- rectifier: to_side_len, to_affine_transform, affine_transform_chunk
    source,         \* the source Bitmap
    rect_corners,   \* the corners [Point<f64>; 3] given to the rectifier
    rect_width,     \* width and height of the result (lib.rs:90, 97)
    side_len,       \* value of to_side_len
    trans,          \* the matrix [[f64; 3]; 2]
    result,         \* the result Bitmap
    rect_idx,       \* pixels of the result already written
    cur,            \* locals x, y, sx, sy of the last pixel written, and the
                    \* f64 coordinates (fx, fy) before `as u32`
    rect_pc,        \* "idle" | "start" | "len" | "trans" | "width" | "pixels" | "done"
                    \* | "panic"
    \* ---- a Bitmap object and the calls of its pixel accessors
    bmp,            \* the Bitmap
    last_call,      \* the last accessor call: [op, x, y, res]
    \* ---- two Rows iterators over one Bitmap
    rows_bmp,       \* the Bitmap
    rows_it,        \* the two iterators: [st, lo, hi, size], st = "none" |
                    \* "live" | "dropped" | "panic"
    rows_log,       \* per iterator, the calls made and what each returned
    \* ---- the demo pipeline: cam thread, scan thread, main thread
    cam_th,         \* where the cam thread is: "while" | "frame" | "send_cam" |
                    \* "count" | "send_scan" | "done" | "panic"
    scan_th,        \* where the scan thread is: "while" | "recv" | "send" | "done"
    main_th,        \* where main is: "recv_first" | "window" | "try_cam" |
                    \* "try_result" | "drop_result" | "drop_cam" | "join_scan" |
                    \* "join_cam" | "done" | "panic"
    cam_q,          \* the messages in the channel (cam_tx, cam_rx)
    scan_q,         \* the messages in the channel (scan_tx, scan_rx)
    result_q,       \* the messages in the channel (result_tx, result_rx)
    frames,         \* the frames the camera has delivered
    frame,          \* the cam thread's frame
    frame_counter,  \* the cam thread's frame_counter
    cam_send_ok,    \* the cam thread's send_result.is_ok()
    scan_frame,     \* the scan thread's frame
    scan_send_ok,   \* the scan thread's send_result.is_ok()
    submitted,      \* history: the frames sent on scan_tx
    received,       \* history: the frames the scan thread has received
    sent,           \* history: the results sent on result_tx
    \* ---- one FixedBuffer
    fbuf,            \* the FixedBuffer: [data, head, full]
    fbuf_pushed,     \* history: the values pushed since the last clear
    fbuf_cleared,    \* history: the values pushed before the last clear
    \* ---- one call of confirm_col
    col_img,        \* img
    col_x,          \* x
    col_y,          \* y
    col_width,      \* width
    col_back,       \* the indices that the iterator back yields
    col_fwd,        \* the indices that the iterator fwd yields
    col_res,        \* the Option returned, or the panic
    col_pc          \* "call" | "done"

binVars == <<histo, thresh, new_thresh, black_sum, black_cnt, white_sum,
             white_cnt, bin_pc, bin_out>>

scanVars == <<img, scan_y, ratio_buf, x_buf, targets, active_targets, scan_pc,
              scan_skipped, scan_tried>>

cornerVars == <<markers, bbox, code_img, vectors, corner_pc>>

rectVars == <<source, rect_corners, rect_width, side_len, trans, result, rect_idx,
              cur, rect_pc>>

accVars == <<bmp, last_call>>

rowsVars == <<rows_bmp, rows_it, rows_log>>

colVars == <<col_img, col_x, col_y, col_width, col_back, col_fwd, col_res, col_pc>>

bufVars == <<fbuf, fbuf_pushed, fbuf_cleared>>

pipeVars == <<cam_th, scan_th, main_th, cam_q, scan_q, result_q, frames, frame,
              frame_counter, cam_send_ok, scan_frame, scan_send_ok, submitted,
              received, sent>>

vars == <<binVars, scanVars, cornerVars, rectVars,
         accVars,
         rowsVars,
         pipeVars,
         bufVars,
         colVars>>

(***************************************************************************)
(* Bounds of the model.                                                    *)
(***************************************************************************)
\* largest bucket count drawn for a histogram bucket
MaxCount == 2
\* largest module width (px) of a drawn finder pattern
MaxModule == 3
\* largest offset of a drawn finder pattern from the top and left edges
MaxOff == 3
\* largest white margin right of and below a drawn finder pattern
MaxPad == 1
\* and the patterns that the scan gets below have up to MaxBelow white rows
\* under them
MaxBelow == 6
\* largest width and height of the bitmaps drawn pixel by pixel
MaxSmallW == 3
MaxSmallH == 2
\* the middles of the drawn markers lie on the grid (0..MaxGrid) x (0..MaxGrid)
MaxGrid == 2
\* longest drawn marker list
MaxMarkers == 4
\* the source bitmaps of the rectifier are w x w for w in 0 .. SrcSize
SrcSize == 4
\* the square's top-left corner is drawn from (-MaxNeg..MaxOrigin)^2
MaxNeg == 1
MaxOrigin == 1
\* longest side of the drawn square
MaxSide == 2
\* the bitmaps whose accessors are called are up to MaxBmpW x MaxBmpH, and
\* the coordinates asked for go up to (MaxBmpW, MaxBmpH), one beyond them
MaxBmpW == 2
MaxBmpH == 2
\* the bitmaps whose rows are iterated are up to MaxRowsW x MaxRowsH
MaxRowsW == 2
MaxRowsH == 3
\* calls made on one iterator, and the largest n given to nth and nth_back
MaxCalls == 4
MaxSkip == 1
\* the camera delivers up to MaxFrames frames
MaxFrames == 5
\* a FixedBuffer of capacity up to MaxCap gets up to MaxPushes values
MaxCap == 6
MaxPushes == 8

(***************************************************************************)
(* Binarizer                                                               *)
(***************************************************************************)
\* the lumas whose buckets may be non-empty in the histograms drawn by Init
Lumas == {0, 100, 128, 200, 255}

\* bucket counts: small counts, and the 16 pixels of a flat 4x4 image
Counts == (0 .. MaxCount) \cup {16}

\* histo[l]: a histogram is kept as its buckets at Lumas; every other bucket
\* of the 256 is empty
Bucket(h, l) == IF l \in DOMAIN h THEN h[l] ELSE 0

\* the closure `accum`: (sum, cnt), (hval, luma) -> (sum + hval*luma, cnt + hval)
accum(acc, hval, luma) == <<acc[1] + hval * luma, acc[2] + hval>>

\* what accum adds to the sum over histo[lo..hi] zipped with lo..: the range
\* is split in halves (accum only adds, so the grouping does not change the
\* result), and a range of empty buckets adds nothing
RECURSIVE RangeSum(_, _, _)
RangeSum(h, lo, hi) ==
    IF lo >= hi \/ (\A l \in DOMAIN h : l < lo \/ l >= hi) THEN 0
    ELSE IF hi = lo + 1 THEN accum(<<0, 0>>, Bucket(h, lo), lo)[1]
    ELSE RangeSum(h, lo, (lo + hi) \div 2) + RangeSum(h, (lo + hi) \div 2, hi)

\* what accum adds to the count over histo[lo..hi]
RECURSIVE RangeCnt(_, _, _)
RangeCnt(h, lo, hi) ==
    IF lo >= hi \/ (\A l \in DOMAIN h : l < lo \/ l >= hi) THEN 0
    ELSE IF hi = lo + 1 THEN accum(<<0, 0>>, Bucket(h, lo), lo)[2]
    ELSE RangeCnt(h, lo, (lo + hi) \div 2) + RangeCnt(h, (lo + hi) \div 2, hi)

\* histo[lo..hi].iter().zip(lo..).fold(seed, accum)
Fold(h, lo, hi, seed) ==
    <<seed[1] + RangeSum(h, lo, hi), seed[2] + RangeCnt(h, lo, hi)>>

\* a mutant of SideAccum: the count seeded at 0 instead of 1
SideAccumSeed0(h, lo, hi) == Fold(h, lo, hi, <<0, 0>>)

\* the initial accumulators of one side: the count starts at 1
SideAccum(h, lo, hi) == Fold(h, lo, hi, <<0, 1>>)

\* the accumulators of the moved range: (0, 0) seed
DiffAccum(h, lo, hi) == Fold(h, lo, hi, <<0, 0>>)

\* (black_sum / black_cnt + white_sum / white_cnt) / 2 in usize arithmetic
MeanOfMeans(bs, bc, ws, wc) == ((bs \div bc) + (ws \div wc)) \div 2

BinStart ==
    /\ bin_pc = "start"
    /\ LET b == SideAccum(histo, 0, 128)
           w == SideAccum(histo, 128, 256)
       IN /\ black_sum' = b[1]
          /\ black_cnt' = b[2]
          /\ white_sum' = w[1]
          /\ white_cnt' = w[2]
          /\ thresh' = 128
          /\ IF b[2] = 0 \/ w[2] = 0
             THEN /\ bin_pc' = "panic"          \* division by zero
                  /\ new_thresh' = new_thresh
             ELSE /\ bin_pc' = "loop"
                  /\ new_thresh' = MeanOfMeans(b[1], b[2], w[1], w[2])
    /\ UNCHANGED <<histo, bin_out, scanVars, cornerVars, rectVars, accVars, rowsVars,
            pipeVars, bufVars, colVars>>

\* one iteration of `while new_thresh != thresh`
BinLoop ==
    /\ bin_pc = "loop"
    /\ new_thresh # thresh
    /\ LET less == new_thresh < thresh
           min  == IF less THEN new_thresh ELSE thresh
           max  == IF less THEN thresh ELSE new_thresh
           d    == DiffAccum(histo, min, max)
           bs   == IF less THEN black_sum - d[1] ELSE black_sum + d[1]
           bc   == IF less THEN black_cnt - d[2] ELSE black_cnt + d[2]
           ws   == IF less THEN white_sum + d[1] ELSE white_sum - d[1]
           wc   == IF less THEN white_cnt + d[2] ELSE white_cnt - d[2]
       IN IF bs < 0 \/ bc < 0 \/ ws < 0 \/ wc < 0 \/ bc = 0 \/ wc = 0
          THEN \* usize underflow of an accumulator, or a division by zero
               /\ bin_pc' = "panic"
               /\ UNCHANGED <<thresh, new_thresh, black_sum, black_cnt,
                              white_sum, white_cnt>>
          ELSE /\ black_sum' = bs
               /\ black_cnt' = bc
               /\ white_sum' = ws
               /\ white_cnt' = wc
               /\ thresh' = new_thresh
               /\ new_thresh' = MeanOfMeans(bs, bc, ws, wc)
               /\ bin_pc' = "loop"
    /\ UNCHANGED <<histo, bin_out, scanVars, cornerVars, rectVars, accVars, rowsVars,
            pipeVars, bufVars, colVars>>

\* the loop exits and the function returns `thresh as u8`
BinReturn ==
    /\ bin_pc = "loop"
    /\ new_thresh = thresh
    /\ bin_pc' = "done"
    /\ bin_out' = thresh % 256
    /\ UNCHANGED <<histo, thresh, new_thresh, black_sum, black_cnt,
                   white_sum, white_cnt, scanVars, cornerVars, rectVars,
                   accVars, rowsVars, pipeVars, bufVars, colVars>>

(***************************************************************************)
(* Bitmap (bitmap.rs) and Target (target.rs)                               *)
(***************************************************************************)
\* struct Bitmap { data, width, height }; true is white, false is black
Bitmap(data, width, height) ==
    [data |-> data, width |-> width, height |-> height]

\* img.len() through Deref<Target = [bool]>
ImgLen(b) == Len(b.data)

\* img[i], indices from 0
PxAt(b, i) == b.data[i + 1]

\* whether the slice img[lo..hi] is in range (it panics otherwise)
SliceOk(b, lo, hi) == 0 <= lo /\ lo <= hi /\ hi <= ImgLen(b)

\* img[lo..hi].iter().step_by(step): the items at lo, lo+step, ...
StepFwd(b, lo, hi, step) ==
    [k \in 1 .. ((hi - lo + step - 1) \div step) |-> PxAt(b, lo + (k - 1) * step)]

\* img[lo..hi].iter().rev().step_by(step): the items at hi-1, hi-1-step, ...
StepRev(b, lo, hi, step) ==
    [k \in 1 .. ((hi - lo + step - 1) \div step) |-> PxAt(b, hi - 1 - (k - 1) * step)]

Point(x, y) == [x |-> x, y |-> y]

\* a mutant of Target: the x coordinates of mid and max exchanged
TargetMidMaxSwapped(x_min, y_min, x_mid, y_mid, x_max, y_max) ==
    [min |-> Point(x_min, y_min), mid |-> Point(x_max, y_mid),
     max |-> Point(x_mid, y_max)]

\* Target::new
Target(x_min, y_min, x_mid, y_mid, x_max, y_max) ==
    [min |-> Point(x_min, y_min), mid |-> Point(x_mid, y_mid),
     max |-> Point(x_max, y_max)]

(***************************************************************************)
(* FixedBuffer<T, N>: data is a sequence of N values, head counts from 0   *)
(***************************************************************************)
FixedBufferNew(N, default) ==
    [data |-> [i \in 1 .. N |-> default], head |-> 0, full |-> FALSE]

is_full(buf) == buf.full

clear(buf) == [buf EXCEPT !.head = 0, !.full = FALSE]

push(buf, val) ==
    [data |-> [buf.data EXCEPT ![buf.head + 1] = val],
     head |-> (buf.head + 1) % Len(buf.data),
     full |-> buf.full \/ (buf.head + 1) % Len(buf.data) = 0]

peek_back(buf) == buf.data[(IF buf.full THEN buf.head ELSE 0) + 1]

iter(buf) ==
    SubSeq(buf.data, (IF buf.full THEN buf.head ELSE Len(buf.data)) + 1,
           Len(buf.data))
        \o SubSeq(buf.data, 1, buf.head)

(***************************************************************************)
(* Pattern matching.  An f32 ratio a/b of two run lengths is kept as the   *)
(* pair <<a, b>>, and compared exactly: for run lengths up to 128 the f32  *)
(* comparison of the code and the exact one agree.                         *)
(***************************************************************************)
\* const TARGET_RATIOS: [f32; 4] = [1.0, 1.0/3.0, 3.0, 1.0]
TARGET_RATIOS == <<<<1, 1>>, <<1, 3>>, <<3, 1>>, <<1, 1>>>>

\* const TARGET_THRESH: f32 = 0.65
TARGET_THRESH == <<13, 20>>

\* off_by = ratio - target; -TARGET_THRESH < off_by && off_by < TARGET_THRESH
RatioMatches(ratio, target) ==
    /\ ratio[2] > 0
    /\ -TARGET_THRESH[1] * ratio[2] * target[2]
         < TARGET_THRESH[2] * (ratio[1] * target[2] - target[1] * ratio[2])
    /\ TARGET_THRESH[2] * (ratio[1] * target[2] - target[1] * ratio[2])
         < TARGET_THRESH[1] * ratio[2] * target[2]

\* ratios.zip(TARGET_RATIOS.iter()).all(...)
IsPattern(ratios) ==
    \A k \in 1 .. (IF Len(ratios) < 4 THEN Len(ratios) ELSE 4) :
        RatioMatches(ratios[k], TARGET_RATIOS[k])

(***************************************************************************)
(* confirm_line: the two walks from the middle outwards.  A walk carries   *)
(* [buf, idx, color, pos, panic]; idx counts from 0 as size_idx does.      *)
(***************************************************************************)
\* the loop `for &px in back`: from item i of the sequence
RECURSIVE WalkBack(_, _, _)
WalkBack(back, i, w) ==
    IF i > Len(back) \/ w.panic THEN w
    ELSE IF back[i] # w.color /\ w.idx = 0 THEN w                  \* break
    ELSE IF w.pos = 0 THEN [w EXCEPT !.panic = TRUE]               \* min -= 1
    ELSE IF back[i] # w.color
         THEN WalkBack(back, i + 1,
                  [w EXCEPT !.color = back[i], !.idx = w.idx - 1,
                            !.buf[w.idx] = @ + 1, !.pos = @ - 1])
         ELSE WalkBack(back, i + 1,
                  [w EXCEPT !.buf[w.idx + 1] = @ + 1, !.pos = @ - 1])

\* the loop `for &px in fwd`: from item i of the sequence
RECURSIVE WalkFwd(_, _, _)
WalkFwd(fwd, i, w) ==
    IF i > Len(fwd) THEN w
    ELSE IF fwd[i] # w.color /\ w.idx = 4 THEN w                   \* break
    ELSE IF fwd[i] # w.color
         THEN WalkFwd(fwd, i + 1,
                  [w EXCEPT !.color = fwd[i], !.idx = w.idx + 1,
                            !.buf[w.idx + 2] = @ + 1, !.pos = @ + 1])
         ELSE WalkFwd(fwd, i + 1,
                  [w EXCEPT !.buf[w.idx + 1] = @ + 1, !.pos = @ + 1])

\* an Option<(u32, u32)>, or a panic
NoLine == [panic |-> FALSE, some |-> FALSE, min |-> 0, max |-> 0]
LinePanic == [panic |-> TRUE, some |-> FALSE, min |-> 0, max |-> 0]

\* size_buf.windows(2).map(|win| win[0] / win[1])
Windows(size_buf) == [k \in 1 .. 4 |-> <<size_buf[k], size_buf[k + 1]>>]

confirm_line(back, fwd, mid) ==
    LET b == WalkBack(back, 1,
                 [buf |-> <<1, 1, 1, 1, 1>>, idx |-> 2, color |-> FALSE,
                  pos |-> mid, panic |-> FALSE])
        f == WalkFwd(fwd, 1,
                 [buf |-> b.buf, idx |-> 2, color |-> FALSE, pos |-> mid,
                  panic |-> FALSE])
    IN IF b.panic THEN LinePanic
       ELSE IF IsPattern(Windows(f.buf))
            THEN [panic |-> FALSE, some |-> TRUE, min |-> b.pos, max |-> f.pos]
            ELSE NoLine

\* point_idx.checked_sub(max).unwrap_or(x)
MaxUp(point_idx, max, x) == IF point_idx >= max THEN point_idx - max ELSE x

confirm_col(b, x, y, width) ==
    LET img_width == b.width
        point_idx == y * b.width + x
        max       == width * b.width
        max_up    == MaxUp(point_idx, max, x)
        max_down  == IF max > ImgLen(b) - point_idx
                     THEN ImgLen(b) - (img_width - x)
                     ELSE point_idx + max
    IN IF \/ ImgLen(b) - point_idx < 0
          \/ img_width - x < 0
          \/ ~SliceOk(b, max_up, point_idx)
          \/ ~SliceOk(b, point_idx, max_down)
          \/ img_width = 0                      \* step_by(0) panics
       THEN LinePanic
       ELSE confirm_line(StepRev(b, max_up, point_idx, img_width),
                         StepFwd(b, point_idx, max_down, img_width), y)

\* x.saturating_sub(width_max)
SaturatingSub(a, c) == IF a >= c THEN a - c ELSE 0

confirm_row(b, x, y, width) ==
    LET img_width == b.width
        row_idx   == y * b.width
        point_idx == row_idx + x
        width_max == (width * 5) \div 8
        max_left  == row_idx + SaturatingSub(x, width_max)
        max_right == IF x + width_max > b.width
                     THEN row_idx + img_width
                     ELSE point_idx + width_max
    IN IF \/ ~SliceOk(b, max_left, point_idx)
          \/ ~SliceOk(b, point_idx, max_right)
       THEN LinePanic
       ELSE confirm_line(StepRev(b, max_left, point_idx, 1),
                         StepFwd(b, point_idx, max_right, 1), x)

(***************************************************************************)
(* find_pos_targets: the walk along one row.  The walk carries             *)
(* [chunk_color, last_count, count, x_buf, ratio_buf, targets,             *)
(*  active_targets, panic, skipped, tried], the last two a history of the  *)
(* candidates met.                                                         *)
(***************************************************************************)
\* a mutant of outside: a candidate that starts at the target's left edge or
\* right of it counts as outside
OutsideFromMin(t, x, start_x) == x < t.min.x \/ start_x >= t.min.x

\* the closure `outside`, for the active target t
Outside(t, x, start_x) == x < t.min.x \/ start_x > t.max.x

\* lines 268-279: the row matches; check the middle column, then the middle row
Candidate(b, y, x, start_x, st) ==
    IF x < start_x THEN [st EXCEPT !.panic = TRUE]          \* x - start_x
    ELSE
    LET width == x - start_x
        x_mid == start_x + width \div 2
        col   == confirm_col(b, x_mid, y, width)
        y_mid == col.min + (col.max - col.min) \div 2
        row   == confirm_row(b, x_mid, y_mid, width)
    IN IF col.panic THEN [st EXCEPT !.panic = TRUE]
       ELSE IF ~col.some THEN st
       ELSE IF col.max < col.min THEN [st EXCEPT !.panic = TRUE]
       ELSE IF row.panic THEN [st EXCEPT !.panic = TRUE]
       ELSE IF ~row.some THEN st
       ELSE [st EXCEPT
               !.active_targets = Append(@, Len(st.targets)),
               !.targets = Append(@, Target(row.min, col.min, x_mid, y_mid,
                                            row.max, col.max))]

\* a candidate [start_x, x] of row y, with the active set it met
Found(y, start_x, x, st) ==
    [y |-> y, start_x |-> start_x, x |-> x, active |-> st.active_targets]

\* the body of `for (x, &px) in enum_row` at column x
RowPixel(b, y, x, st) ==
    IF PxAt(b, y * b.width + x) = st.chunk_color
    THEN [st EXCEPT !.count = @ + 1]
    ELSE
    LET px == PxAt(b, y * b.width + x)
        s1 == [st EXCEPT !.chunk_color = px,
                         !.x_buf = push(@, x),
                         !.ratio_buf = push(@, <<st.last_count, st.count>>),
                         !.last_count = st.count,
                         !.count = 1]
        start_x == peek_back(s1.x_buf)
    IN IF ~s1.chunk_color \/ ~is_full(s1.ratio_buf) THEN s1
       ELSE IF ~(\A k \in 1 .. Len(s1.active_targets) :
                    Outside(s1.targets[s1.active_targets[k] + 1], x, start_x))
            THEN [s1 EXCEPT !.skipped = Append(@, Found(y, start_x, x, s1))]
       ELSE IF ~IsPattern(iter(s1.ratio_buf)) THEN s1
       ELSE Candidate(b, y, x, start_x,
                      [s1 EXCEPT !.tried = Append(@, Found(y, start_x, x, s1))])

RECURSIVE RowWalk(_, _, _, _)
RowWalk(b, y, x, st) ==
    IF x >= b.width \/ st.panic THEN st
    ELSE RowWalk(b, y, x + 1, RowPixel(b, y, x, st))

\* the first chunk of row y: the index of the first pixel that differs from
\* the first one (the row's width if none does); the `while let` loop stops
\* having consumed that pixel
FirstChunk(b, y) ==
    IF \E k \in 1 .. b.width - 1 : PxAt(b, y * b.width + k) # PxAt(b, y * b.width)
    THEN CHOOSE k \in 1 .. b.width - 1 :
            /\ PxAt(b, y * b.width + k) # PxAt(b, y * b.width)
            /\ \A j \in 1 .. k - 1 : PxAt(b, y * b.width + j) = PxAt(b, y * b.width)
    ELSE b.width

\* active_targets.swap_remove(ati)
SwapRemove(seq, ati) ==
    IF ati + 1 = Len(seq) THEN SubSeq(seq, 1, Len(seq) - 1)
    ELSE [SubSeq(seq, 1, Len(seq) - 1) EXCEPT ![ati + 1] = seq[Len(seq)]]

\* a mutant of PruneActive: a target is dropped once the scan is below its
\* top
RECURSIVE PruneActiveBelowMin(_, _, _, _)
PruneActiveBelowMin(active, tgts, y, ati) ==
    IF ati >= Len(active) THEN active
    ELSE IF y > tgts[active[ati + 1] + 1].min.y
         THEN PruneActiveBelowMin(SwapRemove(active, ati), tgts, y, ati)
         ELSE PruneActiveBelowMin(active, tgts, y, ati + 1)

\* lines 285-293: drop the active targets the scan is now entirely below
RECURSIVE PruneActive(_, _, _, _)
PruneActive(active, tgts, y, ati) ==
    IF ati >= Len(active) THEN active
    ELSE IF y > tgts[active[ati + 1] + 1].max.y
         THEN PruneActive(SwapRemove(active, ati), tgts, y, ati)
         ELSE PruneActive(active, tgts, y, ati + 1)

\* the body of the row loop for row y, up to the pruning
RowScan(b, y, rb, xb, tgts, active) ==
    RowWalk(b, y, FirstChunk(b, y) + 1,
            [chunk_color |-> ~PxAt(b, y * b.width),
             last_count |-> FirstChunk(b, y),
             count |-> 1,
             x_buf |-> push(xb, FirstChunk(b, y)),
             ratio_buf |-> rb,
             targets |-> tgts,
             active_targets |-> active,
             panic |-> FALSE,
             skipped |-> <<>>,
             tried |-> <<>>])

\* img.rows(): data.chunks_exact(width) panics when width is 0
ScanStart ==
    /\ scan_pc = "start"
    /\ scan_pc' = IF img.width = 0 THEN "panic" ELSE "rows"
    /\ UNCHANGED <<img, scan_y, ratio_buf, x_buf, targets, active_targets,
                   scan_skipped, scan_tried, binVars, cornerVars, rectVars,
                   accVars, rowsVars, pipeVars, bufVars, colVars>>

\* one turn of `for (y, row) in img.rows().enumerate().step_by(4)`
ScanRow ==
    /\ scan_pc = "rows"
    /\ scan_y < ImgLen(img) \div img.width
    /\ LET st == RowScan(img, scan_y, ratio_buf, x_buf, targets, active_targets)
       IN IF st.panic
          THEN /\ scan_pc' = "panic"
               /\ UNCHANGED <<scan_y, ratio_buf, x_buf, targets, active_targets,
                              scan_skipped, scan_tried>>
          ELSE /\ scan_pc' = "rows"
               /\ scan_y' = scan_y + 4
               /\ targets' = st.targets
               /\ active_targets' =
                      PruneActive(st.active_targets, st.targets, scan_y, 0)
               /\ ratio_buf' = clear(st.ratio_buf)
               /\ x_buf' = clear(st.x_buf)
               /\ scan_skipped' = scan_skipped \o st.skipped
               /\ scan_tried' = scan_tried \o st.tried
    /\ UNCHANGED <<img, binVars, cornerVars, rectVars, accVars, rowsVars, pipeVars,
                   bufVars, colVars>>

\* the rows are exhausted and `targets` is returned
ScanReturn ==
    /\ scan_pc = "rows"
    /\ scan_y >= ImgLen(img) \div img.width
    /\ scan_pc' = "done"
    /\ UNCHANGED <<img, scan_y, ratio_buf, x_buf, targets, active_targets,
                   scan_skipped, scan_tried, binVars, cornerVars, rectVars,
                   accVars, rowsVars, pipeVars, bufVars, colVars>>

(***************************************************************************)
(* The bitmaps drawn for the scanner                                       *)
(***************************************************************************)
\* whether the pixel at offset (i, j) of a finder pattern whose modules are
\* mx wide and my high is black
FinderBlack(i, j, mx, my) ==
    \/ i \div mx \in {0, 6}
    \/ j \div my \in {0, 6}
    \/ (i \div mx \in 2 .. 4 /\ j \div my \in 2 .. 4)

\* a white w x h bitmap with one finder pattern at (x0, y0), its modules mx
\* wide and my high
FinderBitmap(w, h, x0, y0, mx, my) ==
    Bitmap([k \in 1 .. w * h |->
               LET x == (k - 1) % w
                   y == (k - 1) \div w
               IN ~(/\ x >= x0 /\ x < x0 + 7 * mx
                    /\ y >= y0 /\ y < y0 + 7 * my
                    /\ FinderBlack(x - x0, y - y0, mx, my))],
           w, h)

\* the finder patterns: any module up to MaxModule each way, any offset up to
\* MaxOff, any right and bottom margin up to MaxPad (0: the pattern touches
\* the edge)
FinderBitmaps ==
    {FinderBitmap(p[3] + 7 * p[1] + p[5], p[4] + 7 * p[2] + p[6],
                  p[3], p[4], p[1], p[2]) :
        p \in (1 .. MaxModule) \X (1 .. MaxModule) \X (0 .. MaxOff)
                \X (0 .. MaxOff) \X (0 .. MaxPad) \X (0 .. MaxPad)}

\* every bitmap up to MaxSmallW x MaxSmallH, the zero-sized ones included
SmallBitmaps ==
    UNION {{Bitmap(d, s[1], s[2]) : d \in [1 .. s[1] * s[2] -> BOOLEAN]} :
             s \in (0 .. MaxSmallW) \X (0 .. MaxSmallH)}

\* square finder patterns of module 3 or more one pixel from the left edge,
\* with white rows below them: MaxPad + 1 to MaxBelow of them
PaddedFinders ==
    {FinderBitmap(7 * p[1] + 2, p[2] + 7 * p[1] + p[3], 1, p[2], p[1], p[1]) :
        p \in (3 .. MaxModule) \X (0 .. MaxOff) \X (MaxPad + 1 .. MaxBelow)}

ScanInputs == FinderBitmaps \cup SmallBitmaps \cup PaddedFinders

(***************************************************************************)
(* f64 values of the corner resolver.  A value is [k, n, d]: k = "fin" is  *)
(* the rational n/d (d > 0, in lowest terms), or the zero of sign d when   *)
(* n = 0; k = "inf" is the infinity of sign n; k = "nan" is NaN.  Finite   *)
(* values are kept exact.                                                  *)
(***************************************************************************)
RECURSIVE GCD(_, _)
GCD(a, b) == IF b = 0 THEN a ELSE GCD(b, a % b)

Abs(i) == IF i < 0 THEN -i ELSE i

Sign(i) == IF i < 0 THEN -1 ELSE 1

\* the zero of sign s
Zero(s) == [k |-> "fin", n |-> 0, d |-> s]

\* the nonzero rational n/d
Fin(n, d) ==
    [k |-> "fin",
     n |-> (Sign(d) * n) \div GCD(Abs(n), Abs(d)),
     d |-> Abs(d) \div GCD(Abs(n), Abs(d))]

Inf(s) == [k |-> "inf", n |-> s, d |-> 1]

NaN == [k |-> "nan", n |-> 0, d |-> 1]

\* u32 as f64
F(i) == IF i = 0 THEN Zero(1) ELSE Fin(i, 1)

IsFinite(a) == a.k = "fin"

IsZero(a) == a.k = "fin" /\ a.n = 0

\* the sign bit of a value that is not NaN
SignOf(a) == IF IsZero(a) THEN a.d ELSE Sign(a.n)

FNeg(a) ==
    IF a.k = "nan" THEN a
    ELSE IF IsZero(a) THEN Zero(-a.d)
    ELSE [a EXCEPT !.n = -a.n]

\* an exact sum of zero is +0 unless both operands are -0
FAdd(a, b) ==
    IF a.k = "nan" \/ b.k = "nan" THEN NaN
    ELSE IF a.k = "inf" /\ b.k = "inf" THEN (IF a.n = b.n THEN a ELSE NaN)
    ELSE IF a.k = "inf" THEN a
    ELSE IF b.k = "inf" THEN b
    ELSE IF IsZero(a) /\ IsZero(b) THEN Zero(IF a.d = -1 /\ b.d = -1 THEN -1 ELSE 1)
    ELSE IF IsZero(a) THEN b
    ELSE IF IsZero(b) THEN a
    ELSE IF a.n * b.d + b.n * a.d = 0 THEN Zero(1)
    ELSE Fin(a.n * b.d + b.n * a.d, a.d * b.d)

FSub(a, b) == FAdd(a, FNeg(b))

FMul(a, b) ==
    IF a.k = "nan" \/ b.k = "nan" THEN NaN
    ELSE IF (a.k = "inf" /\ IsZero(b)) \/ (b.k = "inf" /\ IsZero(a)) THEN NaN
    ELSE IF a.k = "inf" \/ b.k = "inf" THEN Inf(SignOf(a) * SignOf(b))
    ELSE IF IsZero(a) \/ IsZero(b) THEN Zero(SignOf(a) * SignOf(b))
    ELSE Fin(a.n * b.n, a.d * b.d)

FDiv(a, b) ==
    IF a.k = "nan" \/ b.k = "nan" THEN NaN
    ELSE IF a.k = "inf" /\ b.k = "inf" THEN NaN
    ELSE IF IsZero(a) /\ IsZero(b) THEN NaN
    ELSE IF a.k = "inf" \/ IsZero(b) THEN Inf(SignOf(a) * SignOf(b))
    ELSE IF b.k = "inf" \/ IsZero(a) THEN Zero(SignOf(a) * SignOf(b))
    ELSE Fin(a.n * b.d, a.d * b.n)

\* a > b; false when either is NaN; the two zeros are equal
FGt(a, b) ==
    /\ a.k # "nan"
    /\ b.k # "nan"
    /\ IF a.k = "inf" THEN a.n = 1 /\ ~(b.k = "inf" /\ b.n = 1)
       ELSE IF b.k = "inf" THEN b.n = -1
       ELSE a.n * Abs(b.d) > b.n * Abs(a.d)

FAbs(a) ==
    IF a.k = "nan" THEN a
    ELSE IF IsZero(a) THEN Zero(1)
    ELSE [a EXCEPT !.n = Abs(a.n)]

PointF(p) == [x |-> F(p.x), y |-> F(p.y)]

\* Target::to_f64
to_f64(t) == [min |-> PointF(t.min), mid |-> PointF(t.mid), max |-> PointF(t.max)]

up(t) == Point(t.mid.x, t.min.y)
down(t) == Point(t.mid.x, t.max.y)
left(t) == Point(t.min.x, t.mid.y)
right(t) == Point(t.max.x, t.mid.y)

(***************************************************************************)
(* Angles are kept in fixed point, in units of pi/314159264 (about 1e-8    *)
(* radian), as [nan, v].  atan is tabulated for the slopes the drawn       *)
(* markers can have.                                                       *)
(***************************************************************************)
PI == 314159264
TAU == 2 * PI

Ang(v) == [nan |-> FALSE, v |-> v]
AngNaN == [nan |-> TRUE, v |-> 0]

\* atan(n/d) for 0 < n/d, in lowest terms
AtanTable ==
    <<1, 1>> :> 78539816 @@ <<1, 2>> :> 46364761 @@ <<1, 3>> :> 32175055 @@
    <<1, 4>> :> 24497866 @@ <<2, 1>> :> 110714871 @@ <<2, 3>> :> 58800260 @@
    <<3, 1>> :> 124904577 @@ <<3, 2>> :> 98279372 @@ <<3, 4>> :> 64350111 @@
    <<4, 1>> :> 132581766 @@ <<4, 3>> :> 92729521

\* f64::atan
Atan(a) ==
    IF a.k = "nan" THEN AngNaN
    ELSE IF a.k = "inf" THEN Ang(a.n * (PI \div 2))
    ELSE IF IsZero(a) THEN Ang(0)
    ELSE Ang(Sign(a.n) * AtanTable[<<Abs(a.n), a.d>>])

AngAdd(a, v) == IF a.nan THEN a ELSE Ang(a.v + v)

AngSub(a, b) == IF a.nan \/ b.nan THEN AngNaN ELSE Ang(a.v - b.v)

\* a % TAU for a >= 0 (the angles reduced are never negative)
AngModTau(a) == IF a.nan THEN a ELSE Ang(a.v % TAU)

AngAbs(a) == IF a.nan THEN a ELSE Ang(Abs(a.v))

\* a < b and a > b; false when either is NaN
AngLt(a, b) == ~a.nan /\ ~b.nan /\ a.v < b.v
AngGt(a, b) == AngLt(b, a)

(***************************************************************************)
(* pick_corners (target.rs:326-406); indices count from 0 as in the code   *)
(***************************************************************************)
\* max3 over the list collect3(f)
max3(list) ==
    IF AngLt(list[1], list[2])
    THEN (IF AngLt(list[2], list[3]) THEN 2 ELSE 1)
    ELSE (IF AngLt(list[1], list[3]) THEN 2 ELSE 0)

\* slopes[i]: from target i to target (i + 1) % 3
SlopeOf(t, i) ==
    FDiv(FSub(t[((i + 1) % 3) + 1].mid.y, t[i + 1].mid.y),
         FSub(t[((i + 1) % 3) + 1].mid.x, t[i + 1].mid.x))

\* angles[i]
AngleOf(t, i) ==
    AngAdd(Atan(SlopeOf(t, i)),
           IF FGt(t[i + 1].mid.x, t[((i + 1) % 3) + 1].mid.x)
           THEN (PI * 3) \div 2 ELSE PI \div 2)

\* arcs[i]
ArcOf(t, i) ==
    AngSub(AngModTau(AngAdd(AngleOf(t, (i + 2) % 3), PI)), AngleOf(t, i))

\* the closure given to max3: the arc folded into [0, PI]
FoldedArc(t, i) ==
    IF AngGt(AngAbs(ArcOf(t, i)), Ang(PI))
    THEN AngSub(Ang(TAU), AngAbs(ArcOf(t, i)))
    ELSE AngAbs(ArcOf(t, i))

TlIndex(t) == max3(<<FoldedArc(t, 0), FoldedArc(t, 1), FoldedArc(t, 2)>>)

\* (arcs[tl_index] + TAU) % TAU > PI
ArcIsReflex(t, tl) == AngGt(AngModTau(AngAdd(ArcOf(t, tl), TAU)), Ang(PI))

\* the tuple (top_right, bot_left, h_slope, v_slope)
Assign(t, tl) ==
    IF ArcIsReflex(t, tl)
    THEN [top_right |-> t[((tl + 2) % 3) + 1], bot_left |-> t[((tl + 1) % 3) + 1],
          h_slope |-> SlopeOf(t, (tl + 2) % 3), v_slope |-> SlopeOf(t, tl)]
    ELSE [top_right |-> t[((tl + 1) % 3) + 1], bot_left |-> t[((tl + 2) % 3) + 1],
          h_slope |-> SlopeOf(t, tl), v_slope |-> SlopeOf(t, (tl + 2) % 3)]

pick_lr(t, l) == IF l THEN left(t) ELSE right(t)
pick_ud(t, u) == IF u THEN up(t) ELSE down(t)

\* the closure pick_points: (corner, near, far)
pick_points(top_left, targ, other, slope) ==
    IF FGt(FAbs(slope), F(1))
    THEN LET other_is_to_right ==
                 FGt(other.mid.x,
                     FAdd(FDiv(FSub(other.mid.y, targ.mid.y), slope), targ.mid.x))
         IN <<pick_lr(top_left, other_is_to_right),
              pick_lr(targ, other_is_to_right),
              pick_ud(targ, FGt(other.mid.y, targ.mid.y))>>
    ELSE LET other_is_below ==
                 FGt(other.mid.y,
                     FAdd(FMul(FSub(other.mid.x, targ.mid.x), slope), targ.mid.y))
         IN <<pick_ud(top_left, other_is_below),
              pick_ud(targ, other_is_below),
              pick_lr(targ, FGt(other.mid.x, targ.mid.x))>>

\* the closure intersect
intersect(h_slope, v_slope, p1, p2) ==
    LET x == FDiv(FSub(FAdd(FSub(FMul(h_slope, p1.x), FMul(v_slope, p2.x)), p2.y),
                       p1.y),
                  FSub(h_slope, v_slope))
    IN Point(x, FAdd(FMul(h_slope, FSub(x, p1.x)), p1.y))

None == [some |-> FALSE, corners |-> <<>>]
Some(c) == [some |-> TRUE, corners |-> c]

\* lines 334-405: the corners of three targets
Corners(t) ==
    LET tl   == TlIndex(t)
        a    == Assign(t, tl)
        top  == pick_points(t[tl + 1], a.top_right, a.bot_left, a.h_slope)
        lft  == pick_points(t[tl + 1], a.bot_left, a.top_right, a.v_slope)
    IN <<intersect(a.h_slope, a.v_slope, top[1], lft[1]),
         intersect(a.h_slope, a.v_slope, top[2], top[3]),
         intersect(a.h_slope, a.v_slope, lft[3], lft[2])>>

\* a mutant of pick_corners: fewer than 3 targets are refused, more are not
pick_cornersAtLeast3(tgts) ==
    IF Len(tgts) < 3 THEN None
    ELSE Some(Corners([i \in 1 .. 3 |-> to_f64(tgts[i])]))

pick_corners(tgts) ==
    IF Len(tgts) # 3 THEN None
    ELSE Some(Corners([i \in 1 .. 3 |-> to_f64(tgts[i])]))

\* scan, lib.rs:85: let bbox = pick_corners(&targets)
ScanPickCorners ==
    /\ corner_pc = "start"
    /\ bbox' = pick_corners(markers)
    /\ corner_pc' = "picked"
    /\ UNCHANGED <<markers, code_img, vectors, binVars, scanVars, rectVars, accVars,
            rowsVars, pipeVars, bufVars, colVars>>

\* scan, lib.rs:86-100: the rectified image and the vectors exist exactly when
\* bbox does
ScanResult ==
    /\ corner_pc = "picked"
    /\ code_img' = IF bbox.some THEN "some" ELSE "none"
    /\ vectors' = IF bbox.some THEN "some" ELSE "none"
    /\ corner_pc' = "done"
    /\ UNCHANGED <<markers, bbox, binVars, scanVars, rectVars, accVars, rowsVars,
            pipeVars, bufVars, colVars>>

(***************************************************************************)
(* The marker lists drawn for the corner resolver                          *)
(***************************************************************************)
\* a marker of half-width 3 whose middle is the grid point (i, j)
GridMarker(i, j) ==
    Target(10 * i + 7, 10 * j + 7, 10 * i + 10, 10 * j + 10,
           10 * i + 13, 10 * j + 13)

GridMarkers == {GridMarker(p[1], p[2]) : p \in (0 .. MaxGrid) \X (0 .. MaxGrid)}

\* the markers of the lists whose length is not 3
FewMarkers == {GridMarker(0, 0), GridMarker(1, 0), GridMarker(0, 1)}

\* two equal largest inner arcs: which of them max3 picks is decided by the
\* rounding of atan, which the fixed-point angles do not carry
TiedArcs(tgts) ==
    LET t == [i \in 1 .. 3 |-> to_f64(tgts[i])]
    IN \E i, j \in 0 .. 2 :
           /\ i < j
           /\ ~FoldedArc(t, i).nan
           /\ FoldedArc(t, i) = FoldedArc(t, j)
           /\ \A k \in 0 .. 2 : ~AngLt(FoldedArc(t, i), FoldedArc(t, k))

MarkerLists ==
    {l \in [1 .. 3 -> GridMarkers] : ~TiedArcs(l)}
        \cup UNION {[1 .. n -> FewMarkers] : n \in (0 .. MaxMarkers) \ {3}}

(***************************************************************************)
(* f64 values of the rectifier.  A value is [i, e]: the integer i plus e   *)
(* units of 2^-70, with e far below half a unit of i.  Every sum and       *)
(* product is rounded to the nearest f64, ties to even; a value below 2^-53*)
(* in magnitude (i = 0) is carried unrounded, its own spacing being far    *)
(* finer than 2^-70.  A zero carries no sign: the only consumer of the     *)
(* values is `as u32`, which maps both zeros to 0.                         *)
(***************************************************************************)
E(i, e) == [i |-> i, e |-> e]

RECURSIVE Log2(_)
Log2(n) == IF n < 2 THEN 0 ELSE 1 + Log2(n \div 2)

RECURSIVE Pow2(_)
Pow2(k) == IF k = 0 THEN 1 ELSE 2 * Pow2(k - 1)

\* f rounded to a multiple of ulp, ties to the even multiple
RoundHalfEven(f, ulp) ==
    LET q == f \div ulp
        r == f % ulp
    IN IF 2 * r < ulp THEN q * ulp
       ELSE IF 2 * r > ulp THEN (q + 1) * ulp
       ELSE IF q % 2 = 0 THEN q * ulp
       ELSE (q + 1) * ulp

\* the spacing of f64, in units of 2^-70, at the magnitude m + f * 2^-70:
\* 2^(k - 52) in [2^k, 2^(k + 1)), and half of that just below a power of two
Ulp(m, f) ==
    IF f < 0 /\ m = Pow2(Log2(m)) THEN Pow2(Log2(m) + 17) ELSE Pow2(Log2(m) + 18)

\* the f64 nearest to i + e * 2^-70
ERound(i, e) ==
    IF i = 0 THEN E(0, e)
    ELSE E(i, Sign(i) * RoundHalfEven(Sign(i) * e, Ulp(Abs(i), Sign(i) * e)))

EAdd(p, q) == ERound(p.i + q.i, p.e + q.e)

\* the product of the two offsets is below 2^-100 and rounds away
EMul(p, q) == ERound(p.i * q.i, p.i * q.e + q.i * p.e)

ENeg(p) == E(-p.i, -p.e)

\* an integral f64 of the corner type as a rectifier value
EOf(a) == E(a.n \div Abs(a.d), 0)

\* cos(f64 pi/2) = 0x1.1a62633145c07p-54 = 6.123233995736766e-17, in units of
\* 2^-70
COS_FRAC_PI_2 == 72290

\* f64::cos and f64::sin at the angles the drawn corners give
Cos(a) == IF a.v = 0 THEN E(1, 0) ELSE E(0, COS_FRAC_PI_2)
Sin(a) == IF a.v = 0 THEN E(0, 0) ELSE E(1, 0)

\* f64::sqrt of a perfect square
FSqrt(a) == F(CHOOSE r \in 0 .. a.n : r * r = a.n)

\* `as u32` on f64: toward zero, a negative value saturating to 0
AsU32(p) ==
    IF p.i <= 0 THEN 0
    ELSE IF p.e < 0 THEN p.i - 1
    ELSE p.i

\* Point::dist_to (lib.rs:45-47)
dist_to(p, other) ==
    FSqrt(FAdd(FMul(FSub(other.x, p.x), FSub(other.x, p.x)),
               FMul(FSub(other.y, p.y), FSub(other.y, p.y))))

\* Point::angle_to (lib.rs:49-61)
angle_to(p, other) ==
    LET x_diff == FSub(other.x, p.x)
        y_diff == FSub(other.y, p.y)
        arc    == Atan(FDiv(y_diff, x_diff))
    IN IF FGt(F(0), x_diff)
       THEN (IF FGt(F(0), y_diff) THEN AngAdd(arc, -PI) ELSE AngAdd(arc, PI))
       ELSE arc

\* target.rs:408-412
to_side_len(corners) ==
    LET top_len  == dist_to(corners[1], corners[2])
        left_len == dist_to(corners[1], corners[3])
    IN IF FGt(top_len, left_len) THEN top_len ELSE left_len

\* target.rs:418-428
to_affine_transform(corners, len) ==
    LET angle_h == angle_to(corners[1], corners[2])
        angle_v == angle_to(corners[1], corners[3])
        h_len   == FDiv(len, dist_to(corners[1], corners[2]))
        v_len   == FDiv(len, dist_to(corners[1], corners[3]))
    IN <<<<EMul(Cos(angle_h), EOf(h_len)),
           EMul(ENeg(Cos(angle_v)), EOf(v_len)),
           EOf(corners[1].x)>>,
         <<EMul(ENeg(Sin(angle_h)), EOf(h_len)),
           EMul(Sin(angle_v), EOf(v_len)),
           EOf(corners[1].y)>>>>

(***************************************************************************)
(* Bitmap accessors used by the rectifier (bitmap.rs:122-158)              *)
(***************************************************************************)
pixel_index_unchecked(b, x, y) == y * b.width + x

\* a mutant of pixel_index: the last column refused as well
pixel_indexRefusesLastColumn(b, x, y) ==
    IF x + 1 >= b.width \/ y >= b.height
    THEN [some |-> FALSE, i |-> 0]
    ELSE [some |-> TRUE, i |-> pixel_index_unchecked(b, x, y)]

\* Option<usize>
pixel_index(b, x, y) ==
    IF x >= b.width \/ y >= b.height
    THEN [some |-> FALSE, i |-> 0]
    ELSE [some |-> TRUE, i |-> pixel_index_unchecked(b, x, y)]

\* *source.get_pixel_checked(x, y).unwrap_or(&true)
get_pixel_checked_or_true(b, x, y) ==
    IF pixel_index(b, x, y).some THEN PxAt(b, pixel_index(b, x, y).i) ELSE TRUE

\* Bitmap::new: all white
BitmapNew(width, height) ==
    Bitmap([k \in 1 .. width * height |-> TRUE], width, height)

(***************************************************************************)
(* affine_transform_chunk (bitmap.rs:293-320)                              *)
(***************************************************************************)
\* (a * x + c * y) + tx, with [[a, b, tx], [c, d, ty]] the matrix
SourceX(mat, x, y) ==
    EAdd(EAdd(EMul(mat[1][1], E(x, 0)), EMul(mat[2][1], E(y, 0))), mat[1][3])

\* (b * x + d * y) + ty
SourceY(mat, x, y) ==
    EAdd(EAdd(EMul(mat[1][2], E(x, 0)), EMul(mat[2][2], E(y, 0))), mat[2][3])

\* lib.rs:87: let len = to_side_len(bbox)
RectSideLen ==
    /\ rect_pc = "start"
    /\ side_len' = to_side_len(rect_corners)
    /\ rect_pc' = "len"
    /\ UNCHANGED <<source, rect_corners, rect_width, trans, result, rect_idx, cur,
                   binVars, scanVars, cornerVars, accVars, rowsVars, pipeVars,
                   bufVars, colVars>>

\* lib.rs:88: let trans = to_affine_transform(bbox, len)
RectTransform ==
    /\ rect_pc = "len"
    /\ trans' = to_affine_transform(rect_corners, side_len)
    /\ rect_pc' = "trans"
    /\ UNCHANGED <<source, rect_corners, rect_width, side_len, result, rect_idx, cur,
                   binVars, scanVars, cornerVars, accVars, rowsVars, pipeVars,
                   bufVars, colVars>>

\* lib.rs:90: let width = img.width() / 2; the source bitmap has the frame's
\* dimensions (bitmap.rs:98-107)
RectWidth ==
    /\ rect_pc = "trans"
    /\ rect_width' = source.width \div 2
    /\ rect_pc' = "width"
    /\ UNCHANGED <<source, rect_corners, side_len, trans, result, rect_idx, cur,
                   binVars, scanVars, cornerVars, accVars, rowsVars, pipeVars,
                   bufVars, colVars>>

\* bitmap.rs:299-306: the all-white result and its rows; chunks_exact_mut
\* panics on a chunk size of 0
RectNew ==
    /\ rect_pc = "width"
    /\ result' = BitmapNew(rect_width, rect_width)
    /\ rect_idx' = 0
    /\ rect_pc' = IF rect_width = 0 THEN "panic" ELSE "pixels"
    /\ UNCHANGED <<source, rect_corners, rect_width, side_len, trans, cur,
                   binVars, scanVars, cornerVars, accVars, rowsVars, pipeVars,
                   bufVars, colVars>>

\* bitmap.rs:307-317: one destination pixel, in row-major order
RectPixel ==
    /\ rect_pc = "pixels"
    /\ rect_idx < ImgLen(result)
    /\ LET x  == rect_idx % result.width
           y  == rect_idx \div result.width
           fx == SourceX(trans, x, y)
           fy == SourceY(trans, x, y)
           sx == AsU32(fx)
           sy == AsU32(fy)
       IN /\ cur' = [x |-> x, y |-> y, fx |-> fx, fy |-> fy, sx |-> sx, sy |-> sy]
          /\ result' = [result EXCEPT
                            !.data[rect_idx + 1] = get_pixel_checked_or_true(source, sx, sy)]
    /\ rect_idx' = rect_idx + 1
    /\ UNCHANGED <<source, rect_corners, rect_width, side_len, trans, rect_pc,
                   binVars, scanVars, cornerVars, accVars, rowsVars, pipeVars,
                   bufVars, colVars>>

\* bitmap.rs:319: result
RectReturn ==
    /\ rect_pc = "pixels"
    /\ rect_idx = ImgLen(result)
    /\ rect_pc' = "done"
    /\ UNCHANGED <<source, rect_corners, rect_width, side_len, trans, result,
                   rect_idx, cur, binVars, scanVars, cornerVars, accVars,
                   rowsVars, pipeVars, bufVars, colVars>>

(***************************************************************************)
(* The inputs drawn for the rectifier                                      *)
(***************************************************************************)
\* the w x w bitmap that is white but for the pixel k (k = 0: none)
OneBlack(w, k) == Bitmap([j \in 1 .. w * w |-> j # k], w, w)

RectSources ==
    {OneBlack(p[1], p[2]) :
         p \in {q \in (0 .. SrcSize) \X (0 .. SrcSize * SrcSize) : q[2] <= q[1] * q[1]}}

\* the corners of the axis-aligned square of side len at (x0, y0)
SquareCorners(x0, y0, len) ==
    <<Point(F(x0), F(y0)), Point(F(x0 + len), F(y0)), Point(F(x0), F(y0 + len))>>

RectCorners ==
    {SquareCorners(p[1], p[2], p[3]) :
         p \in (-MaxNeg .. MaxOrigin) \X (-MaxNeg .. MaxOrigin) \X (1 .. MaxSide)}

NoCur == [x |-> 0, y |-> 0, fx |-> E(0, 0), fy |-> E(0, 0), sx |-> 0, sy |-> 0]

(***************************************************************************)
(* Bitmap pixel accessors (bitmap.rs:122-179), called on a bitmap object.  *)
(* A call's outcome is [k, i, px]: k = "ok" with the index i referenced    *)
(* and the pixel px there, k = "none" for an absent Option, k = "panic".   *)
(***************************************************************************)
Ok(i, px) == [k |-> "ok", i |-> i, px |-> px]
Absent == [k |-> "none", i |-> 0, px |-> TRUE]
Panic == [k |-> "panic", i |-> 0, px |-> TRUE]

\* bitmap.rs:134-143 and 145-154: get_pixel and get_pixel_mut
get_pixel(b, x, y) ==
    IF pixel_index(b, x, y).some
    THEN Ok(pixel_index(b, x, y).i, PxAt(b, pixel_index(b, x, y).i))
    ELSE Panic

\* bitmap.rs:156-158 and 160-163: get_pixel_checked and get_pixel_checked_mut
get_pixel_checked(b, x, y) ==
    IF pixel_index(b, x, y).some
    THEN Ok(pixel_index(b, x, y).i, PxAt(b, pixel_index(b, x, y).i))
    ELSE Absent

\* bitmap.rs:165-169: the outcomes of clamp_coords.  On a zero width or
\* height `self.width - 1` is a u32 subtraction with overflow: a panic in a
\* build with overflow checks, and u32::MAX in one without, where
\* cmp::min(x, u32::MAX) = x.
clamp_coords(b, x, y) ==
    (IF b.width = 0 \/ b.height = 0
     THEN {[panic |-> TRUE, cx |-> 0, cy |-> 0]}
     ELSE {})
        \cup {[panic |-> FALSE,
               cx |-> IF b.width = 0 THEN x
                      ELSE IF x < b.width - 1 THEN x ELSE b.width - 1,
               cy |-> IF b.height = 0 THEN y
                      ELSE IF y < b.height - 1 THEN y ELSE b.height - 1]}

\* bitmap.rs:171-174 and 176-179: get_pixel_clamped and get_pixel_clamped_mut
get_pixel_clamped(b, x, y) ==
    {IF c.panic THEN Panic ELSE get_pixel(b, c.cx, c.cy) : c \in clamp_coords(b, x, y)}

\* a write of v through the reference an accessor has returned
WriteThrough(b, res, v) ==
    IF res.k = "ok" THEN [b EXCEPT !.data[res.i + 1] = v] ELSE b

\* the outcome seen by the caller after that write
Written(res, v) == IF res.k = "ok" THEN [res EXCEPT !.px = v] ELSE res

Call(op, x, y, res) == [op |-> op, x |-> x, y |-> y, res |-> res]

GetPixel ==
    \E x \in 0 .. MaxBmpW, y \in 0 .. MaxBmpH :
        /\ last_call' = Call("get_pixel", x, y, get_pixel(bmp, x, y))
        /\ UNCHANGED <<bmp, binVars, scanVars, cornerVars, rectVars, rowsVars, pipeVars,
                       bufVars, colVars>>

GetPixelMut ==
    \E x \in 0 .. MaxBmpW, y \in 0 .. MaxBmpH, v \in BOOLEAN :
        /\ bmp' = WriteThrough(bmp, get_pixel(bmp, x, y), v)
        /\ last_call' = Call("get_pixel_mut", x, y, Written(get_pixel(bmp, x, y), v))
        /\ UNCHANGED <<binVars, scanVars, cornerVars, rectVars, rowsVars, pipeVars,
                       bufVars, colVars>>

GetPixelChecked ==
    \E x \in 0 .. MaxBmpW, y \in 0 .. MaxBmpH :
        /\ last_call' = Call("get_pixel_checked", x, y, get_pixel_checked(bmp, x, y))
        /\ UNCHANGED <<bmp, binVars, scanVars, cornerVars, rectVars, rowsVars, pipeVars,
                       bufVars, colVars>>

GetPixelCheckedMut ==
    \E x \in 0 .. MaxBmpW, y \in 0 .. MaxBmpH, v \in BOOLEAN :
        /\ bmp' = WriteThrough(bmp, get_pixel_checked(bmp, x, y), v)
        /\ last_call' = Call("get_pixel_checked_mut", x, y,
                       Written(get_pixel_checked(bmp, x, y), v))
        /\ UNCHANGED <<binVars, scanVars, cornerVars, rectVars, rowsVars, pipeVars,
                       bufVars, colVars>>

GetPixelClamped ==
    \E x \in 0 .. MaxBmpW, y \in 0 .. MaxBmpH :
        \E res \in get_pixel_clamped(bmp, x, y) :
            /\ last_call' = Call("get_pixel_clamped", x, y, res)
            /\ UNCHANGED <<bmp, binVars, scanVars, cornerVars, rectVars, rowsVars, pipeVars,
                           bufVars, colVars>>

GetPixelClampedMut ==
    \E x \in 0 .. MaxBmpW, y \in 0 .. MaxBmpH, v \in BOOLEAN :
        \E res \in get_pixel_clamped(bmp, x, y) :
            /\ bmp' = WriteThrough(bmp, res, v)
            /\ last_call' = Call("get_pixel_clamped_mut", x, y, Written(res, v))
            /\ UNCHANGED <<binVars, scanVars, cornerVars, rectVars, rowsVars, pipeVars,
                           bufVars, colVars>>

\* every bitmap up to MaxBmpW x MaxBmpH, the zero-sized ones included
AccBitmaps ==
    UNION {{Bitmap(d, s[1], s[2]) : d \in [1 .. s[1] * s[2] -> BOOLEAN]} :
             s \in (0 .. MaxBmpW) \X (0 .. MaxBmpH)}

NoCall == Call("none", 0, 0, Absent)

(***************************************************************************)
(* Bitmap::rows and the Rows iterator (bitmap.rs:182-184, 216-252).  Rows  *)
(* wraps slice::ChunksExact over the pixel data: the iterator holds the    *)
(* rest v = data[lo .. hi) of the slice and the chunk size.                *)
(***************************************************************************)
NoRows == [st |-> "none", lo |-> 0, hi |-> 0, size |-> 0]

\* bitmap.rs:182-184: self.data.chunks_exact(self.width as usize), which
\* panics on a chunk size of 0 and leaves out the remainder of the slice
rows(b) ==
    IF b.width = 0
    THEN [st |-> "panic", lo |-> 0, hi |-> 0, size |-> 0]
    ELSE [st |-> "live", lo |-> 0, hi |-> ImgLen(b) - (ImgLen(b) % b.width),
          size |-> b.width]

\* Option<slice::Iter<bool>>: the row as the sequence of its pixels
NoItem == [some |-> FALSE, row |-> <<>>]
Item(b, lo, size) == [some |-> TRUE, row |-> [x \in 1 .. size |-> b.data[lo + x]]]

Yield(it, item) == [it |-> it, item |-> item]

\* bitmap.rs:222-224
RowsNextOf(b, it) ==
    IF it.hi - it.lo < it.size THEN Yield(it, NoItem)
    ELSE Yield([it EXCEPT !.lo = it.lo + it.size], Item(b, it.lo, it.size))

\* bitmap.rs:244-246
RowsNextBackOf(b, it) ==
    IF it.hi - it.lo < it.size THEN Yield(it, NoItem)
    ELSE Yield([it EXCEPT !.hi = it.hi - it.size], Item(b, it.hi - it.size, it.size))

\* bitmap.rs:232-234: ChunksExact::nth empties the iterator when n chunks are
\* not left
RowsNthOf(b, it, n) ==
    IF n * it.size >= it.hi - it.lo
    THEN Yield([it EXCEPT !.lo = 0, !.hi = 0], NoItem)
    ELSE RowsNextOf(b, [it EXCEPT !.lo = it.lo + n * it.size])

\* bitmap.rs:249-251
RowsNthBackOf(b, it, n) ==
    LET len   == (it.hi - it.lo) \div it.size
        start == it.lo + (len - 1 - n) * it.size
    IN IF n >= len
       THEN Yield([it EXCEPT !.lo = 0, !.hi = 0], NoItem)
       ELSE Yield([it EXCEPT !.hi = start], Item(b, start, it.size))

Entry(op, n, item) == [op |-> op, n |-> n, item |-> item]

\* the iterators that may still be called
Callable(k) == rows_it[k].st = "live" /\ Len(rows_log[k]) < MaxCalls

\* let rows = bitmap.rows()
RowsCall ==
    \E k \in 1 .. 2 :
        /\ rows_it[k].st = "none"
        /\ rows_it' = [rows_it EXCEPT ![k] = rows(rows_bmp)]
        /\ UNCHANGED <<rows_bmp, rows_log, binVars, scanVars, cornerVars, rectVars,
                       accVars, pipeVars, bufVars, colVars>>

\* the second iterator is walked forward only: it is the plain forward
\* iteration that the first is set against
RowsNext ==
    \E k \in 1 .. 2 :
        /\ Callable(k)
        /\ rows_it' = [rows_it EXCEPT ![k] = RowsNextOf(rows_bmp, @).it]
        /\ rows_log' = [rows_log EXCEPT
               ![k] = Append(@, Entry("next", 0, RowsNextOf(rows_bmp, rows_it[k]).item))]
        /\ UNCHANGED <<rows_bmp, binVars, scanVars, cornerVars, rectVars, accVars,
            pipeVars, bufVars, colVars>>

RowsNextBack ==
    /\ Callable(1)
    /\ rows_it' = [rows_it EXCEPT ![1] = RowsNextBackOf(rows_bmp, @).it]
    /\ rows_log' = [rows_log EXCEPT
           ![1] = Append(@, Entry("next_back", 0,
                                  RowsNextBackOf(rows_bmp, rows_it[1]).item))]
    /\ UNCHANGED <<rows_bmp, binVars, scanVars, cornerVars, rectVars, accVars,
            pipeVars, bufVars, colVars>>

RowsNth ==
    \E n \in 0 .. MaxSkip :
        /\ Callable(1)
        /\ rows_it' = [rows_it EXCEPT ![1] = RowsNthOf(rows_bmp, @, n).it]
        /\ rows_log' = [rows_log EXCEPT
               ![1] = Append(@, Entry("nth", n, RowsNthOf(rows_bmp, rows_it[1], n).item))]
        /\ UNCHANGED <<rows_bmp, binVars, scanVars, cornerVars, rectVars, accVars,
            pipeVars, bufVars, colVars>>

RowsNthBack ==
    \E n \in 0 .. MaxSkip :
        /\ Callable(1)
        /\ rows_it' = [rows_it EXCEPT ![1] = RowsNthBackOf(rows_bmp, @, n).it]
        /\ rows_log' = [rows_log EXCEPT
               ![1] = Append(@, Entry("nth_back", n,
                                      RowsNthBackOf(rows_bmp, rows_it[1], n).item))]
        /\ UNCHANGED <<rows_bmp, binVars, scanVars, cornerVars, rectVars, accVars,
            pipeVars, bufVars, colVars>>

\* bitmap.rs:237-239: last takes the iterator and calls next_back
RowsLast ==
    /\ Callable(1)
    /\ rows_it' = [rows_it EXCEPT
           ![1] = [RowsNextBackOf(rows_bmp, @).it EXCEPT !.st = "dropped"]]
    /\ rows_log' = [rows_log EXCEPT
           ![1] = Append(@, Entry("last", 0, RowsNextBackOf(rows_bmp, rows_it[1]).item))]
    /\ UNCHANGED <<rows_bmp, binVars, scanVars, cornerVars, rectVars, accVars,
            pipeVars, bufVars, colVars>>

\* the w x h bitmap whose row y spells y + 1 in binary, lowest bit first
NumberedRows(w, h) ==
    Bitmap([j \in 1 .. w * h |->
               (((j - 1) \div w + 1) \div Pow2((j - 1) % w)) % 2 = 1], w, h)

RowsBitmaps == {NumberedRows(s[1], s[2]) : s \in (0 .. MaxRowsW) \X (0 .. MaxRowsH)}

(***************************************************************************)
(* The demo pipeline (main.rs:20-164): the cam thread sends every frame to *)
(* the main thread and every SCAN_INTERVAL-th frame to the scan thread,    *)
(* the scan thread sends one ScanResult per frame to the main thread.  A   *)
(* frame is its number; the ScanResult of a frame carries that number.     *)
(* The three mpsc channels are unbounded queues; a Sender or Receiver that *)
(* a thread's closure owns is dropped when the thread ends.                *)
(***************************************************************************)
SCAN_INTERVAL == 2

\* the cam thread owns cam_tx and scan_tx, the scan thread scan_rx and
\* result_tx; main drops result_rx at main.rs:160 and cam_rx at main.rs:161
CamEnded == cam_th \in {"done", "panic"}
ScanEnded == scan_th = "done"
ResultRxDropped == main_th \in {"drop_cam", "join_scan", "join_cam", "done", "panic"}
CamRxDropped == main_th \in {"join_scan", "join_cam", "done", "panic"}

\* a mutant of recv: the newest message first
recvNewest(q) == [item |-> q[Len(q)], rest |-> SubSeq(q, 1, Len(q) - 1)]

\* Receiver::recv on a queue that holds a message: the oldest one
recv(q) == [item |-> Head(q), rest |-> Tail(q)]

\* main.rs:35: while send_result.is_ok()
CamWhile ==
    /\ cam_th = "while"
    /\ cam_th' = IF cam_send_ok THEN "frame" ELSE "done"
    /\ UNCHANGED <<scan_th, main_th, cam_q, scan_q, result_q, frames, frame,
                   frame_counter, cam_send_ok, scan_frame, scan_send_ok, submitted,
                   received, sent, binVars, scanVars, cornerVars, rectVars, accVars,
                   rowsVars, bufVars, colVars>>

\* main.rs:36: the camera delivers MaxFrames frames and then no more
CamFrame ==
    /\ cam_th = "frame"
    /\ frames < MaxFrames
    /\ frames' = frames + 1
    /\ frame' = frames + 1
    /\ cam_th' = "send_cam"
    /\ UNCHANGED <<scan_th, main_th, cam_q, scan_q, result_q, frame_counter,
                   cam_send_ok, scan_frame, scan_send_ok, submitted, received, sent,
                   binVars, scanVars, cornerVars, rectVars, accVars, rowsVars,
                   bufVars, colVars>>

\* main.rs:38: send_result = cam_tx.send(frame.convert())
CamSendCam ==
    /\ cam_th = "send_cam"
    /\ cam_send_ok' = ~CamRxDropped
    /\ cam_q' = IF CamRxDropped THEN cam_q ELSE Append(cam_q, frame)
    /\ cam_th' = "count"
    /\ UNCHANGED <<scan_th, main_th, scan_q, result_q, frames, frame, frame_counter,
                   scan_frame, scan_send_ok, submitted, received, sent, binVars,
                   scanVars, cornerVars, rectVars, accVars, rowsVars, bufVars,
                   colVars>>

\* main.rs:40-41
CamCount ==
    /\ cam_th = "count"
    /\ frame_counter' = frame_counter + 1
    /\ cam_th' = IF frame_counter + 1 >= SCAN_INTERVAL THEN "send_scan" ELSE "while"
    /\ UNCHANGED <<scan_th, main_th, cam_q, scan_q, result_q, frames, frame,
                   cam_send_ok, scan_frame, scan_send_ok, submitted, received, sent,
                   binVars, scanVars, cornerVars, rectVars, accVars, rowsVars,
                   bufVars, colVars>>

\* main.rs:42-43: scan_tx.send(frame).unwrap(); frame_counter = 0
CamSendScan ==
    /\ cam_th = "send_scan"
    /\ IF ScanEnded
       THEN /\ cam_th' = "panic"
            /\ UNCHANGED <<scan_q, submitted, frame_counter>>
       ELSE /\ scan_q' = Append(scan_q, frame)
            /\ submitted' = Append(submitted, frame)
            /\ frame_counter' = 0
            /\ cam_th' = "while"
    /\ UNCHANGED <<scan_th, main_th, cam_q, result_q, frames, frame, cam_send_ok,
                   scan_frame, scan_send_ok, received, sent, binVars, scanVars,
                   cornerVars, rectVars, accVars, rowsVars, bufVars, colVars>>

\* main.rs:52: while send_result.is_ok()
ScanWhile ==
    /\ scan_th = "while"
    /\ scan_th' = IF scan_send_ok THEN "recv" ELSE "done"
    /\ UNCHANGED <<cam_th, main_th, cam_q, scan_q, result_q, frames, frame,
                   frame_counter, cam_send_ok, scan_frame, scan_send_ok, submitted,
                   received, sent, binVars, scanVars, cornerVars, rectVars, accVars,
                   rowsVars, bufVars, colVars>>

\* main.rs:53-54: scan_rx.recv() blocks while the queue is empty and scan_tx
\* lives, and is an Err once the queue is empty and scan_tx is dropped
ScanRecv ==
    /\ scan_th = "recv"
    /\ scan_q # <<>> \/ CamEnded
    /\ IF scan_q # <<>>
       THEN /\ scan_frame' = recv(scan_q).item
            /\ scan_q' = recv(scan_q).rest
            /\ received' = Append(received, recv(scan_q).item)
            /\ scan_th' = "send"
       ELSE /\ scan_th' = "done"
            /\ UNCHANGED <<scan_frame, scan_q, received>>
    /\ UNCHANGED <<cam_th, main_th, cam_q, result_q, frames, frame, frame_counter,
                   cam_send_ok, scan_send_ok, submitted, sent, binVars, scanVars,
                   cornerVars, rectVars, accVars, rowsVars, bufVars, colVars>>

\* main.rs:55-56: send_result = result_tx.send(scan(&frame))
ScanSend ==
    /\ scan_th = "send"
    /\ scan_send_ok' = ~ResultRxDropped
    /\ IF ResultRxDropped
       THEN UNCHANGED <<result_q, sent>>
       ELSE /\ result_q' = Append(result_q, scan_frame)
            /\ sent' = Append(sent, scan_frame)
    /\ scan_th' = "while"
    /\ UNCHANGED <<cam_th, main_th, cam_q, scan_q, frames, frame, frame_counter,
                   cam_send_ok, scan_frame, submitted, received, binVars, scanVars,
                   cornerVars, rectVars, accVars, rowsVars, bufVars, colVars>>

\* main.rs:76: cam_rx.recv().unwrap()
MainRecvFirst ==
    /\ main_th = "recv_first"
    /\ cam_q # <<>> \/ CamEnded
    /\ IF cam_q # <<>>
       THEN /\ cam_q' = recv(cam_q).rest
            /\ main_th' = "window"
       ELSE /\ main_th' = "panic"
            /\ UNCHANGED cam_q
    /\ UNCHANGED <<cam_th, scan_th, scan_q, result_q, frames, frame, frame_counter,
                   cam_send_ok, scan_frame, scan_send_ok, submitted, received, sent,
                   binVars, scanVars, cornerVars, rectVars, accVars, rowsVars,
                   bufVars, colVars>>

\* main.rs:95: while let Some(e) = window.next(), None once the window closes
MainWindow ==
    /\ main_th = "window"
    /\ main_th' \in {"try_cam", "drop_result"}
    /\ UNCHANGED <<cam_th, scan_th, cam_q, scan_q, result_q, frames, frame,
                   frame_counter, cam_send_ok, scan_frame, scan_send_ok, submitted,
                   received, sent, binVars, scanVars, cornerVars, rectVars, accVars,
                   rowsVars, bufVars, colVars>>

\* main.rs:96: cam_rx.try_recv()
MainTryCam ==
    /\ main_th = "try_cam"
    /\ cam_q' = IF cam_q # <<>> THEN recv(cam_q).rest ELSE cam_q
    /\ main_th' = "try_result"
    /\ UNCHANGED <<cam_th, scan_th, scan_q, result_q, frames, frame, frame_counter,
                   cam_send_ok, scan_frame, scan_send_ok, submitted, received, sent,
                   binVars, scanVars, cornerVars, rectVars, accVars, rowsVars,
                   bufVars, colVars>>

\* main.rs:101: result_rx.try_recv()
MainTryResult ==
    /\ main_th = "try_result"
    /\ result_q' = IF result_q # <<>> THEN recv(result_q).rest ELSE result_q
    /\ main_th' = "window"
    /\ UNCHANGED <<cam_th, scan_th, cam_q, scan_q, frames, frame, frame_counter,
                   cam_send_ok, scan_frame, scan_send_ok, submitted, received, sent,
                   binVars, scanVars, cornerVars, rectVars, accVars, rowsVars,
                   bufVars, colVars>>

\* main.rs:160: drop(result_rx)
MainDropResult ==
    /\ main_th = "drop_result"
    /\ main_th' = "drop_cam"
    /\ result_q' = <<>>
    /\ UNCHANGED <<cam_th, scan_th, cam_q, scan_q, frames, frame, frame_counter,
                   cam_send_ok, scan_frame, scan_send_ok, submitted, received, sent,
                   binVars, scanVars, cornerVars, rectVars, accVars, rowsVars,
                   bufVars, colVars>>

\* main.rs:161: drop(cam_rx)
MainDropCam ==
    /\ main_th = "drop_cam"
    /\ main_th' = "join_scan"
    /\ cam_q' = <<>>
    /\ UNCHANGED <<cam_th, scan_th, scan_q, result_q, frames, frame, frame_counter,
                   cam_send_ok, scan_frame, scan_send_ok, submitted, received, sent,
                   binVars, scanVars, cornerVars, rectVars, accVars, rowsVars,
                   bufVars, colVars>>

\* main.rs:162: scan_thread.join().unwrap(); the scan thread has no panic
MainJoinScan ==
    /\ main_th = "join_scan"
    /\ ScanEnded
    /\ main_th' = "join_cam"
    /\ UNCHANGED <<cam_th, scan_th, cam_q, scan_q, result_q, frames, frame,
                   frame_counter, cam_send_ok, scan_frame, scan_send_ok, submitted,
                   received, sent, binVars, scanVars, cornerVars, rectVars, accVars,
                   rowsVars, bufVars, colVars>>

\* main.rs:163: cam_thread.join().unwrap()
MainJoinCam ==
    /\ main_th = "join_cam"
    /\ CamEnded
    /\ main_th' = IF cam_th = "panic" THEN "panic" ELSE "done"
    /\ UNCHANGED <<cam_th, scan_th, cam_q, scan_q, result_q, frames, frame,
                   frame_counter, cam_send_ok, scan_frame, scan_send_ok, submitted,
                   received, sent, binVars, scanVars, cornerVars, rectVars, accVars,
                   rowsVars, bufVars, colVars>>

CamThread == CamWhile \/ CamFrame \/ CamSendCam \/ CamCount \/ CamSendScan

ScanThread == ScanWhile \/ ScanRecv \/ ScanSend

MainThread ==
    \/ MainRecvFirst \/ MainWindow \/ MainTryCam \/ MainTryResult
    \/ MainDropResult \/ MainDropCam \/ MainJoinScan \/ MainJoinCam

(***************************************************************************)
(* FixedBuffer<T, N> on its own (target.rs:58-100): a buffer of capacity N *)
(* under any sequence of push and clear.  The values pushed are 1, 2, 3,   *)
(* ... so that every value read tells which push wrote it; T::default()    *)
(* is 0.                                                                   *)
(***************************************************************************)
Pushes == Cardinality(fbuf_cleared) + Len(fbuf_pushed)

\* fbuf.push(val)
BufPush ==
    /\ Pushes < MaxPushes
    /\ fbuf' = push(fbuf, Pushes + 1)
    /\ fbuf_pushed' = Append(fbuf_pushed, Pushes + 1)
    /\ UNCHANGED <<fbuf_cleared, binVars, scanVars, cornerVars, rectVars, accVars,
                   rowsVars, pipeVars, colVars>>

\* fbuf.clear()
BufClear ==
    /\ fbuf' = clear(fbuf)
    /\ fbuf_pushed' = <<>>
    /\ fbuf_cleared' = fbuf_cleared \cup {fbuf_pushed[i] : i \in 1 .. Len(fbuf_pushed)}
    /\ UNCHANGED <<binVars, scanVars, cornerVars, rectVars, accVars, rowsVars,
                   pipeVars, colVars>>

(***************************************************************************)
(* confirm_col on its own (target.rs:164-180): one call, with the indices  *)
(* of the pixels that its two iterators hand to confirm_line.              *)
(***************************************************************************)
\* the indices of img[lo..hi].iter().step_by(step)
StepFwdAt(lo, hi, step) ==
    [k \in 1 .. ((hi - lo + step - 1) \div step) |-> lo + (k - 1) * step]

\* the indices of img[lo..hi].iter().rev().step_by(step)
StepRevAt(lo, hi, step) ==
    [k \in 1 .. ((hi - lo + step - 1) \div step) |-> hi - 1 - (k - 1) * step]

\* target.rs:165-176: the iterators back and fwd of confirm_col, as indices
ColWalks(b, x, y, width) ==
    LET point_idx == y * b.width + x
        max       == width * b.width
        max_up    == MaxUp(point_idx, max, x)
        max_down  == IF max > ImgLen(b) - point_idx
                     THEN ImgLen(b) - (b.width - x)
                     ELSE point_idx + max
    IN [back |-> StepRevAt(max_up, point_idx, b.width),
        fwd |-> StepFwdAt(point_idx, max_down, b.width)]

\* confirm_col(img, x, y, width)
ConfirmCol ==
    /\ col_pc = "call"
    /\ col_pc' = "done"
    /\ col_res' = confirm_col(col_img, col_x, col_y, col_width)
    /\ col_back' = IF confirm_col(col_img, col_x, col_y, col_width).panic THEN <<>>
                   ELSE ColWalks(col_img, col_x, col_y, col_width).back
    /\ col_fwd' = IF confirm_col(col_img, col_x, col_y, col_width).panic THEN <<>>
                  ELSE ColWalks(col_img, col_x, col_y, col_width).fwd
    /\ UNCHANGED <<col_img, col_x, col_y, col_width, binVars, scanVars,
                   cornerVars, rectVars, accVars, rowsVars, pipeVars, bufVars>>

\* the finder patterns drawn, as <<mx, my, x0, y0, right pad, bottom pad>>
FinderParams ==
    (1 .. MaxModule) \X (1 .. MaxModule) \X (0 .. MaxOff) \X (0 .. MaxOff)
        \X (0 .. MaxPad) \X (0 .. MaxPad)

FinderOf(p) ==
    FinderBitmap(p[3] + 7 * p[1] + p[5], p[4] + 7 * p[2] + p[6],
                 p[3], p[4], p[1], p[2])

(***************************************************************************)
(* Specifications: one per component; the other components stay idle       *)
(***************************************************************************)
BinIdle ==
    /\ histo = [l \in Lumas |-> 0]
    /\ thresh = 0 /\ new_thresh = 0
    /\ black_sum = 0 /\ black_cnt = 0 /\ white_sum = 0 /\ white_cnt = 0
    /\ bin_pc = "idle"
    /\ bin_out = 0

ScanIdle ==
    /\ img = Bitmap(<<>>, 0, 0)
    /\ scan_y = 0
    /\ ratio_buf = FixedBufferNew(4, <<0, 1>>)
    /\ x_buf = FixedBufferNew(6, 0)
    /\ targets = <<>>
    /\ active_targets = <<>>
    /\ scan_pc = "idle"
    /\ scan_skipped = <<>>
    /\ scan_tried = <<>>

CornerIdle ==
    /\ markers = <<>>
    /\ bbox = None
    /\ code_img = "none"
    /\ vectors = "none"
    /\ corner_pc = "idle"

RectIdle ==
    /\ source = BitmapNew(0, 0)
    /\ rect_corners = <<>>
    /\ rect_width = 0
    /\ side_len = F(0)
    /\ trans = <<>>
    /\ result = BitmapNew(0, 0)
    /\ rect_idx = 0
    /\ cur = NoCur
    /\ rect_pc = "idle"

AccIdle ==
    /\ bmp = BitmapNew(0, 0)
    /\ last_call = NoCall

RowsIdle ==
    /\ rows_bmp = BitmapNew(0, 0)
    /\ rows_it = <<NoRows, NoRows>>
    /\ rows_log = <<<<>>, <<>>>>

PipeStart ==
    /\ cam_th = "while"
    /\ scan_th = "while"
    /\ main_th = "recv_first"
    /\ cam_q = <<>>
    /\ scan_q = <<>>
    /\ result_q = <<>>
    /\ frames = 0
    /\ frame = 0
    /\ frame_counter = 0
    /\ cam_send_ok = TRUE
    /\ scan_frame = 0
    /\ scan_send_ok = TRUE
    /\ submitted = <<>>
    /\ received = <<>>
    /\ sent = <<>>

\* the pipeline is not running while another component is checked
PipeIdle == PipeStart

BufIdle ==
    /\ fbuf = FixedBufferNew(1, 0)
    /\ fbuf_pushed = <<>>
    /\ fbuf_cleared = {}

ColIdle ==
    /\ col_img = Bitmap(<<>>, 0, 0)
    /\ col_x = 0
    /\ col_y = 0
    /\ col_width = 0
    /\ col_back = <<>>
    /\ col_fwd = <<>>
    /\ col_res = NoLine
    /\ col_pc = "idle"

InitBin ==
    /\ histo \in [Lumas -> Counts]
    /\ thresh = 0 /\ new_thresh = 0
    /\ black_sum = 0 /\ black_cnt = 0 /\ white_sum = 0 /\ white_cnt = 0
    /\ bin_pc = "start"
    /\ bin_out = 0
    /\ ScanIdle
    /\ CornerIdle
    /\ RectIdle
    /\ AccIdle
    /\ RowsIdle
    /\ PipeIdle
    /\ BufIdle
    /\ ColIdle

NextBin == BinStart \/ BinLoop \/ BinReturn

SpecBin == InitBin /\ [][NextBin]_vars

\* the routine is sequential code: a step that can be taken is taken
SpecBinFair == SpecBin /\ WF_vars(NextBin)

InitScan ==
    /\ img \in ScanInputs
    /\ scan_y = 0
    /\ ratio_buf = FixedBufferNew(4, <<0, 1>>)
    /\ x_buf = FixedBufferNew(6, 0)
    /\ targets = <<>>
    /\ active_targets = <<>>
    /\ scan_pc = "start"
    /\ scan_skipped = <<>>
    /\ scan_tried = <<>>
    /\ BinIdle
    /\ CornerIdle
    /\ RectIdle
    /\ AccIdle
    /\ RowsIdle
    /\ PipeIdle
    /\ BufIdle
    /\ ColIdle

NextScan == ScanStart \/ ScanRow \/ ScanReturn

SpecScan == InitScan /\ [][NextScan]_vars

InitCorners ==
    /\ markers \in MarkerLists
    /\ bbox = None
    /\ code_img = "none"
    /\ vectors = "none"
    /\ corner_pc = "start"
    /\ BinIdle
    /\ ScanIdle
    /\ RectIdle
    /\ AccIdle
    /\ RowsIdle
    /\ PipeIdle
    /\ BufIdle
    /\ ColIdle

NextCorners == ScanPickCorners \/ ScanResult

SpecCorners == InitCorners /\ [][NextCorners]_vars

InitRect ==
    /\ source \in RectSources
    /\ rect_corners \in RectCorners
    /\ rect_width = 0
    /\ side_len = F(0)
    /\ trans = <<>>
    /\ result = BitmapNew(0, 0)
    /\ rect_idx = 0
    /\ cur = NoCur
    /\ rect_pc = "start"
    /\ BinIdle
    /\ ScanIdle
    /\ CornerIdle
    /\ AccIdle
    /\ RowsIdle
    /\ PipeIdle
    /\ BufIdle
    /\ ColIdle

NextRect ==
    RectSideLen \/ RectTransform \/ RectWidth \/ RectNew \/ RectPixel \/ RectReturn

SpecRect == InitRect /\ [][NextRect]_vars

InitBitmap ==
    /\ bmp \in AccBitmaps
    /\ last_call = NoCall
    /\ BinIdle
    /\ ScanIdle
    /\ CornerIdle
    /\ RectIdle
    /\ RowsIdle
    /\ PipeIdle
    /\ BufIdle
    /\ ColIdle

NextBitmap ==
    \/ GetPixel
    \/ GetPixelMut
    \/ GetPixelChecked
    \/ GetPixelCheckedMut
    \/ GetPixelClamped
    \/ GetPixelClampedMut

SpecBitmap == InitBitmap /\ [][NextBitmap]_vars

InitRows ==
    /\ rows_bmp \in RowsBitmaps
    /\ rows_it = <<NoRows, NoRows>>
    /\ rows_log = <<<<>>, <<>>>>
    /\ BinIdle
    /\ ScanIdle
    /\ CornerIdle
    /\ RectIdle
    /\ AccIdle
    /\ PipeIdle
    /\ BufIdle
    /\ ColIdle

NextRows ==
    RowsCall \/ RowsNext \/ RowsNextBack \/ RowsNth \/ RowsNthBack \/ RowsLast

SpecRows == InitRows /\ [][NextRows]_vars

InitBuffer ==
    /\ fbuf \in {FixedBufferNew(N, 0) : N \in 1 .. MaxCap}
    /\ fbuf_pushed = <<>>
    /\ fbuf_cleared = {}
    /\ BinIdle
    /\ ScanIdle
    /\ CornerIdle
    /\ RectIdle
    /\ AccIdle
    /\ RowsIdle
    /\ PipeIdle
    /\ ColIdle

NextBuffer == BufPush \/ BufClear

SpecBuffer == InitBuffer /\ [][NextBuffer]_vars

InitConfirm ==
    \* the calls drawn: on a finder pattern with modules mx wide, any column
    \* of its centre block, any sampled row of the bitmap, and the width of a
    \* row candidate, which is 7 mx, or 6 mx when the pattern touches the left
    \* edge
    /\ \E p \in FinderParams, wd \in 6 .. 7 :
          \E i \in 2 * p[1] .. 5 * p[1] - 1, r \in 0 .. (p[4] + 7 * p[2] + p[6] - 1) \div 4 :
              /\ col_img = FinderOf(p)
              /\ col_x = p[3] + i
              /\ col_y = 4 * r
              /\ col_width = wd * p[1]
    /\ col_back = <<>>
    /\ col_fwd = <<>>
    /\ col_res = NoLine
    /\ col_pc = "call"
    /\ BinIdle
    /\ ScanIdle
    /\ CornerIdle
    /\ RectIdle
    /\ AccIdle
    /\ RowsIdle
    /\ PipeIdle
    /\ BufIdle

NextConfirm == ConfirmCol

SpecConfirm == InitConfirm /\ [][NextConfirm]_vars

InitPipe ==
    /\ PipeStart
    /\ BinIdle
    /\ ScanIdle
    /\ CornerIdle
    /\ RectIdle
    /\ AccIdle
    /\ RowsIdle
    /\ BufIdle
    /\ ColIdle

NextPipe == CamThread \/ ScanThread \/ MainThread

SpecPipe == InitPipe /\ [][NextPipe]_vars

\* the scan thread is scheduled whenever it can take a step
SpecPipeFair == SpecPipe /\ WF_vars(ScanThread)

\* the buckets of the histogram that are not empty
Support == {l \in DOMAIN histo : histo[l] > 0}

\* C1: for every histogram the threshold routine never divides by zero and
\* never underflows an accumulator, every candidate threshold stays in
\* [0,255], and the loop ends with a returned value in [0,255].
ThresholdTerminates ==
    /\ [](/\ bin_pc # "panic"
          /\ thresh \in 0 .. 255
          /\ new_thresh \in 0 .. 255
          /\ bin_out \in 0 .. 255
          /\ (bin_pc = "done" => bin_out = thresh))
    /\ <>(bin_pc = "done")

\* C1 witness: the flat 4x4 image of luma 128 has gone through the loop and
\* returned
FlatImageReturned ==
    /\ bin_pc = "done"
    /\ Support = {128}
    /\ histo[128] = 16
    /\ bin_out = 60

\* C2 (as claimed): with the mass in two buckets m_low < m_high, the returned
\* threshold lies between the two means.
BimodalBetweenMeans ==
    (bin_pc = "done" /\ Cardinality(Support) = 2) =>
        \A m_low, m_high \in Support :
            m_low < m_high => (m_low <= bin_out /\ bin_out <= m_high)

\* the bitmap scanned is white but for one finder pattern of module m whose
\* top-left pixel is at (x0, y0), and the scan has returned
ScannedFinder(x0, y0, m) ==
    /\ scan_pc = "done"
    /\ x0 + 7 * m <= img.width
    /\ y0 + 7 * m <= img.height
    /\ img = FinderBitmap(img.width, img.height, x0, y0, m, m)

\* C3 (as claimed): a bitmap with exactly one exact finder pattern of module
\* width 1 px at (x0, y0) yields exactly one marker, with bounding box
\* min = (x0, y0), max = (x0 + 6, y0 + 6).  Stated for the patterns with white
\* on all four sides, the case most in the claim's favour.
Module1FinderDetected ==
    \A x0 \in 1 .. MaxOff, y0 \in 1 .. MaxOff :
        (ScannedFinder(x0, y0, 1) /\ x0 + 7 < img.width /\ y0 + 7 < img.height) =>
            /\ Len(targets) = 1
            /\ targets[1].min = Point(x0, y0)
            /\ targets[1].max = Point(x0 + 6, y0 + 6)

\* C4 (as claimed): find_pos_targets fails on no bitmap: no slice or index
\* out of range, no unsigned underflow, no unwrap of an absent value.
ScanNeverPanics == scan_pc # "panic"

\* C5: every marker found satisfies min.x <= mid.x <= max.x and
\* min.y <= mid.y <= max.y.
MarkerMidInsideBox ==
    \A k \in 1 .. Len(targets) :
        /\ targets[k].min.x <= targets[k].mid.x
        /\ targets[k].mid.x <= targets[k].max.x
        /\ targets[k].min.y <= targets[k].mid.y
        /\ targets[k].mid.y <= targets[k].max.y

\* C5 witness: the scan has returned a marker whose box is wider and taller
\* than a point
MarkerReturned ==
    /\ scan_pc = "done"
    /\ Len(targets) >= 1
    /\ targets[1].min.x < targets[1].mid.x
    /\ targets[1].mid.y < targets[1].max.y

\* the only failure of the scan in the bitmaps drawn is the zero-width bitmap
ScanPanicsOnlyOnZeroWidth == scan_pc = "panic" => img.width = 0

\* no finder pattern of module width 1 is found at all
Module1FinderNeverFound ==
    \A x0 \in 0 .. MaxOff, y0 \in 0 .. MaxOff :
        ScannedFinder(x0, y0, 1) => Len(targets) = 0

(***************************************************************************)
(* Corner resolver                                                         *)
(***************************************************************************)
\* C6: pick_corners returns None for every marker list whose length is not 3,
\* and scan then carries no corners, no vectors and no rectified image
NoCornersUnlessThreeMarkers ==
    (Len(markers) # 3 /\ corner_pc \in {"picked", "done"}) =>
        /\ ~bbox.some
        /\ corner_pc = "done" => (code_img = "none" /\ vectors = "none")

\* a scan of four markers has finished
FourMarkersScanned ==
    /\ corner_pc = "done"
    /\ Len(markers) = 4
    /\ ~bbox.some
    /\ code_img = "none"

Mid(i) == markers[i].mid

\* the three midpoints lie on one line
Collinear ==
    (Mid(2).x - Mid(1).x) * (Mid(3).y - Mid(1).y)
        = (Mid(3).x - Mid(1).x) * (Mid(2).y - Mid(1).y)

\* two midpoints share their x
SharedX == \E i, j \in 1 .. 3 : i < j /\ Mid(i).x = Mid(j).x

FiniteCorners ==
    \A i \in 1 .. 3 : IsFinite(bbox.corners[i].x) /\ IsFinite(bbox.corners[i].y)

\* C7 (as claimed): three markers whose midpoints are collinear, or two of
\* which share an x, are refused with None, and no returned corner has a
\* non-finite coordinate
DegenerateSlopesRefused ==
    (Len(markers) = 3 /\ corner_pc \in {"picked", "done"}) =>
        /\ (Collinear \/ SharedX) => ~bbox.some
        /\ bbox.some => FiniteCorners

\* the markers are those of the grid points (i, j), (i + a, j), (i, j + b)
RightTriangleAt(i, j, a, b) ==
    /\ Len(markers) = 3
    /\ {markers[k] : k \in 1 .. 3}
           = {GridMarker(i, j), GridMarker(i + a, j), GridMarker(i, j + b)}

\* the outer corners of the rectangle enclosing that triangle
RectangleCorners(i, j, a, b) ==
    <<Point(F(GridMarker(i, j).min.x), F(GridMarker(i, j).min.y)),
      Point(F(GridMarker(i + a, j).max.x), F(GridMarker(i + a, j).min.y)),
      Point(F(GridMarker(i, j + b).min.x), F(GridMarker(i, j + b).max.y))>>

\* C8 (as claimed): markers at the corners of an axis-aligned right triangle,
\* in any order, give the finite outer corners of the enclosing rectangle in
\* the order [top-left, top-right, bottom-left]
RightTriangleGivesRectangle ==
    \A i, j \in 0 .. MaxGrid, a, b \in 1 .. MaxGrid :
        (i + a <= MaxGrid /\ j + b <= MaxGrid /\ RightTriangleAt(i, j, a, b)
             /\ corner_pc \in {"picked", "done"}) =>
            /\ bbox.some
            /\ FiniteCorners
            /\ bbox.corners = RectangleCorners(i, j, a, b)

\* every returned corner set of an axis-aligned right triangle is non-finite
RightTriangleNeverFinite ==
    \A i, j \in 0 .. MaxGrid, a, b \in 1 .. MaxGrid :
        (i + a <= MaxGrid /\ j + b <= MaxGrid /\ RightTriangleAt(i, j, a, b)
             /\ corner_pc \in {"picked", "done"}) =>
            (bbox.some /\ ~FiniteCorners)

\* three markers in general position give finite corners
GeneralPositionFinite ==
    (Len(markers) = 3 /\ corner_pc \in {"picked", "done"}
         /\ ~Collinear /\ ~SharedX) =>
        (bbox.some /\ FiniteCorners)

(***************************************************************************)
(* Rectifier                                                               *)
(***************************************************************************)
\* a pixel has been written and cur holds its locals
PixelWritten == rect_pc \in {"pixels", "done"} /\ rect_idx > 0

\* the f64 value p is negative
ENegative(p) == p.i < 0 \/ (p.i = 0 /\ p.e < 0)

\* the f64 value p is at least the integer n
EAtLeast(p, n) == p.i > n \/ (p.i = n /\ p.e >= 0)

\* the computed source coordinate lies outside the source bitmap
SourceOutside ==
    \/ ENegative(cur.fx)
    \/ ENegative(cur.fy)
    \/ EAtLeast(cur.fx, source.width)
    \/ EAtLeast(cur.fy, source.height)

LastPixel == result.data[rect_idx]

\* C9 (as claimed): a destination pixel whose computed source coordinate lies
\* outside the source bitmap (negative, or at least the width or height) is
\* white, and a coordinate inside samples the source pixel it falls in
OutsideSourceIsWhite ==
    PixelWritten =>
        IF SourceOutside
        THEN LastPixel = TRUE
        ELSE LastPixel = PxAt(source, pixel_index_unchecked(source, cur.sx, cur.sy))

\* what the code does keep of C9: a coordinate at or beyond the width or the
\* height gives white
BeyondSourceIsWhite ==
    (PixelWritten /\ (EAtLeast(cur.fx, source.width) \/ EAtLeast(cur.fy, source.height)))
        => LastPixel = TRUE

\* the corners given are those of the square of side len at (x0, y0), which
\* lies inside the source
SquareInside(x0, y0, len) ==
    /\ rect_corners = SquareCorners(x0, y0, len)
    /\ x0 + len <= source.width
    /\ y0 + len <= source.height

\* C10 (as claimed): rectifying with the corners of an axis-aligned square
\* inside the source reproduces it: the output pixel (x, y), x and y below
\* the side, equals the source pixel (x0 + x, y0 + y)
SquareReproduced ==
    \A x0, y0 \in 0 .. MaxOrigin, len \in 1 .. MaxSide :
        (PixelWritten /\ SquareInside(x0, y0, len) /\ cur.x < len /\ cur.y < len) =>
            LastPixel = PxAt(source, pixel_index_unchecked(source, x0 + cur.x, y0 + cur.y))

\* the part of C10 the code keeps: the source column is the intended one (the
\* source row is what goes astray)
SquareColumnsReproduced ==
    \A x0, y0 \in 0 .. MaxOrigin, len \in 1 .. MaxSide :
        (PixelWritten /\ SquareInside(x0, y0, len) /\ cur.x < len /\ cur.y < len) =>
            cur.sx = x0 + cur.x

\* a finite f64 rounded to an integer
RoundF(a) == (2 * a.n + Abs(a.d)) \div (2 * Abs(a.d))

RectifiedSizeIsHalfFrame ==
    rect_pc \in {"pixels", "done"} =>
        /\ result.width = source.width \div 2
        /\ result.height = source.width \div 2

\* side_len is the longer of the two sides from corner 0
SideLenIsMaxDistance ==
    rect_pc \notin {"idle", "start"} =>
        \E x0, y0 \in -MaxNeg .. MaxOrigin, len \in 1 .. MaxSide :
            /\ rect_corners = SquareCorners(x0, y0, len)
            /\ side_len = F(len)

(***************************************************************************)
(* Bitmap accessors                                                        *)
(***************************************************************************)
\* the coordinates of the last call lie outside the bitmap
CallOutside == last_call.x >= bmp.width \/ last_call.y >= bmp.height

\* the pixel at (x, y), by its row-major index y * width + x
PixelAt(x, y) == Ok(y * bmp.width + x, bmp.data[y * bmp.width + x + 1])

\* C12: get_pixel and get_pixel_mut fail exactly when x >= width or
\* y >= height, get_pixel_checked and get_pixel_checked_mut return an absence
\* in exactly those cases and never fail, and otherwise all four give the pixel
\* at the row-major index y * width + x
PixelAccessContract ==
    /\ last_call.op \in {"get_pixel", "get_pixel_mut"} =>
           IF CallOutside
           THEN last_call.res = Panic
           ELSE last_call.res = PixelAt(last_call.x, last_call.y)
    /\ last_call.op \in {"get_pixel_checked", "get_pixel_checked_mut"} =>
           IF CallOutside
           THEN last_call.res = Absent
           ELSE last_call.res = PixelAt(last_call.x, last_call.y)

\* get_pixel_mut has given the last pixel of a 2 x 2 bitmap
LastPixelBorrowed ==
    /\ last_call.op = "get_pixel_mut"
    /\ bmp.width = 2 /\ bmp.height = 2
    /\ last_call.x = 1 /\ last_call.y = 1
    /\ last_call.res = Ok(3, bmp.data[4])

\* get_pixel has failed on the column just beyond a bitmap
BeyondLastColumnFails ==
    /\ last_call.op = "get_pixel"
    /\ bmp.width = 2 /\ bmp.height = 2
    /\ last_call.x = 2 /\ last_call.y = 1
    /\ last_call.res = Panic

Min(a, b) == IF a < b THEN a ELSE b

\* C13 (as claimed): on every bitmap, a zero width or height included, the
\* clamped accessors never fail and give the pixel at
\* (min(x, width - 1), min(y, height - 1))
ClampedNeverFails ==
    last_call.op \in {"get_pixel_clamped", "get_pixel_clamped_mut"} =>
        /\ last_call.res.k = "ok"
        /\ last_call.res = PixelAt(Min(last_call.x, bmp.width - 1),
                                   Min(last_call.y, bmp.height - 1))

\* what the code keeps of C13: on a bitmap that has pixels the clamped
\* accessors give the clamped pixel, and they fail on every other bitmap
ClampedFailsOnlyWhenEmpty ==
    last_call.op \in {"get_pixel_clamped", "get_pixel_clamped_mut"} =>
        IF bmp.width = 0 \/ bmp.height = 0
        THEN last_call.res = Panic
        ELSE last_call.res = PixelAt(Min(last_call.x, bmp.width - 1),
                                     Min(last_call.y, bmp.height - 1))

\* the rows of a bitmap, top to bottom, each the sequence of its pixels
RowsOf(b) ==
    [k \in 1 .. b.height |-> [x \in 1 .. b.width |-> b.data[(k - 1) * b.width + x]]]

\* what a call gives on a double-ended sequence of rows R, and what it
\* leaves: next and next_back take one row off an end, nth(n) and
\* nth_back(n) drop n rows first, last is next_back
RefCall(R, e) ==
    LET n == Len(R)
    IN CASE e.op = "next" ->
              IF n = 0 THEN Yield(R, NoItem)
              ELSE Yield(Tail(R), [some |-> TRUE, row |-> R[1]])
         [] e.op \in {"next_back", "last"} ->
              IF n = 0 THEN Yield(R, NoItem)
              ELSE Yield(SubSeq(R, 1, n - 1), [some |-> TRUE, row |-> R[n]])
         [] e.op = "nth" ->
              IF e.n >= n THEN Yield(<<>>, NoItem)
              ELSE Yield(SubSeq(R, e.n + 2, n), [some |-> TRUE, row |-> R[e.n + 1]])
         [] e.op = "nth_back" ->
              IF e.n >= n THEN Yield(<<>>, NoItem)
              ELSE Yield(SubSeq(R, 1, n - e.n - 1), [some |-> TRUE, row |-> R[n - e.n]])

RECURSIVE RefItems(_, _)
RefItems(R, log) ==
    IF log = <<>> THEN <<>>
    ELSE <<RefCall(R, Head(log)).item>> \o RefItems(RefCall(R, Head(log)).it, Tail(log))

Returned(k) == [j \in 1 .. Len(rows_log[k]) |-> rows_log[k][j].item]

\* C14 (as claimed): on a bitmap of any width and height rows() gives an
\* iterator over the height rows of width pixels each: whatever calls are made
\* from either end, each returns the row that the double-ended sequence of the
\* bitmap's rows has there, and two iterators of one bitmap do so
\* independently
RowsAreTheRowsBothWays ==
    \A k \in 1 .. 2 :
        rows_it[k].st # "none" =>
            /\ rows_it[k].st # "panic"
            /\ Returned(k) = RefItems(RowsOf(rows_bmp), rows_log[k])

\* what the code keeps of C14: the same on every bitmap of width 1 or more,
\* and rows() fails on a bitmap of width 0
RowsAreTheRowsUnlessZeroWidth ==
    \A k \in 1 .. 2 :
        rows_it[k].st # "none" =>
            IF rows_bmp.width = 0
            THEN rows_it[k].st = "panic"
            ELSE /\ rows_it[k].st # "panic"
                 /\ Returned(k) = RefItems(RowsOf(rows_bmp), rows_log[k])

\* a 2 x 3 bitmap walked from both ends: the last row, then the first, then
\* the middle one, while the second iterator has given the first row
RowsWalkedFromBothEnds ==
    /\ rows_bmp = NumberedRows(2, 3)
    /\ Len(rows_log[1]) = 3
    /\ rows_log[1][1].op = "next_back" /\ rows_log[1][1].item.row = <<TRUE, TRUE>>
    /\ rows_log[1][2].op = "next" /\ rows_log[1][2].item.row = <<TRUE, FALSE>>
    /\ rows_log[1][3].op = "nth_back" /\ rows_log[1][3].item.row = <<FALSE, TRUE>>
    /\ Len(rows_log[2]) = 1 /\ rows_log[2][1].item.row = <<TRUE, FALSE>>

IsPrefix(a, b) == Len(a) <= Len(b) /\ a = SubSeq(b, 1, Len(a))

\* the scan thread receives the frames in the order they were sent to it, and
\* sends the results in that order, one for every frame received while
\* result_rx lives
FramesScannedInOrder ==
    /\ IsPrefix(received, submitted)
    /\ IsPrefix(sent, received)
    /\ ~ResultRxDropped /\ scan_th # "send" => sent = received

\* C15: the scan thread handles the frames in the order they were submitted,
\* with one result per frame while the result queue is open, and once the cam
\* thread has ended, and scan_tx is dropped with it, the scan thread's loop
\* ends
ScanLoopEndsWhenInputCloses ==
    /\ []FramesScannedInOrder
    /\ (CamEnded ~> ScanEnded)

\* both workers have ended, the scan thread after the results of frames 2 and
\* 4 and a last recv on the closed queue
ScanEndedOnClosedInput ==
    /\ cam_th = "done"
    /\ scan_th = "done"
    /\ scan_send_ok
    /\ received = <<2, 4>>
    /\ sent = <<2, 4>>

\* C20 (as claimed): once main has dropped its receivers no worker panics on
\* a send, and no join in main fails
WorkersEndNormally ==
    ResultRxDropped => cam_th # "panic" /\ main_th # "panic"

\* what the code keeps of C20: the scan thread never panics, and the cam
\* thread panics only on its send to a scan thread that has ended, after
\* main has dropped result_rx
CamPanicsOnlyOnEndedScanThread ==
    /\ cam_th = "panic" => ScanEnded /\ ResultRxDropped /\ frame_counter = SCAN_INTERVAL
    /\ main_th = "panic" => cam_th = "panic"

\* main has joined both workers
BothWorkersJoined == main_th = "done"

\* the last n values of a sequence
LastOf(q, n) == SubSeq(q, Len(q) - Min(n, Len(q)) + 1, Len(q))

Elems(q) == {q[i] : i \in 1 .. Len(q)}

\* with k pushes since the last clear iter yields the last min(k, N) of them,
\* oldest first, is_full holds iff k >= N, and for k >= 1 peek_back is the
\* first value that iter yields
BufferIsFifoWindow ==
    /\ iter(fbuf) = LastOf(fbuf_pushed, Len(fbuf.data))
    /\ is_full(fbuf) <=> Len(fbuf_pushed) >= Len(fbuf.data)
    /\ Len(fbuf_pushed) >= 1 => peek_back(fbuf) = Head(iter(fbuf))

\* C18 (as claimed): a FixedBuffer is a bounded FIFO window of the values
\* pushed since the last clear, and neither iter nor peek_back gives a value
\* that was pushed before the last clear
BufferShowsNothingCleared ==
    /\ BufferIsFifoWindow
    /\ Elems(iter(fbuf)) \cap fbuf_cleared = {}
    /\ peek_back(fbuf) \notin fbuf_cleared

\* what the code keeps of C18: the window, and a peek_back that gives a
\* cleared value exactly on a buffer cleared and not pushed to since
PeekBackStaleOnlyWhenEmpty ==
    /\ BufferIsFifoWindow
    /\ Elems(iter(fbuf)) \cap fbuf_cleared = {}
    /\ peek_back(fbuf) \in fbuf_cleared <=> fbuf_pushed = <<>> /\ fbuf_cleared # {}

\* a buffer of capacity 4 that has wrapped after a clear
BufferWrappedAfterClear ==
    /\ Len(fbuf.data) = 4
    /\ fbuf_cleared = {1, 2}
    /\ fbuf_pushed = <<3, 4, 5, 6, 7, 8>>
    /\ iter(fbuf) = <<5, 6, 7, 8>>
    /\ peek_back(fbuf) = 5

\* the pixels at a sequence of indices
PixelsAt(b, idxs) == [k \in 1 .. Len(idxs) |-> PxAt(b, idxs[k])]

Called == col_pc = "done" /\ ~col_res.panic

\* the call's result is confirm_line on the pixels at the indices recorded
WalksAreTheIterators ==
    Called => col_res = confirm_line(PixelsAt(col_img, col_back),
                                     PixelsAt(col_img, col_fwd), col_y)

\* C17 (as claimed): confirm_col(img, x_mid, y, width) walks column x_mid
\* only, upwards over (x_mid, y-1), (x_mid, y-2), ... and downwards over
\* (x_mid, y), (x_mid, y+1), ..., so that no pixel is in both walks
ColumnWalksStayInColumn ==
    Called =>
        /\ \A k \in 1 .. Len(col_back) :
               col_back[k] = (col_y - k) * col_img.width + col_x
        /\ \A k \in 1 .. Len(col_fwd) :
               col_fwd[k] = (col_y + k - 1) * col_img.width + col_x
        /\ Elems(col_back) \cap Elems(col_fwd) = {}

\* what the code does: the downward walk is as claimed, the upward walk
\* starts on the pixel just before (x_mid, y), in row y of column x_mid - 1
\* (or at the end of row y - 1 when x_mid = 0), and goes up from there
UpwardWalkIsOneColumnLeft ==
    Called =>
        /\ \A k \in 1 .. Len(col_back) :
               col_back[k] = (col_y - k + 1) * col_img.width + col_x - 1
        /\ \A k \in 1 .. Len(col_fwd) :
               col_fwd[k] = (col_y + k - 1) * col_img.width + col_x
        /\ Elems(col_back) \cap Elems(col_fwd) = {}
        /\ WalksAreTheIterators

\* the centre column of a module-3 pattern confirmed from row 12
CentreColumnConfirmed ==
    /\ col_pc = "done"
    /\ col_img = FinderBitmap(23, 23, 1, 1, 3, 3)
    /\ col_x = 11 /\ col_y = 12 /\ col_width = 21
    /\ col_res.some

\* the candidate e lies within the x-range of the marker t
WithinMarker(e, t) == t.min.x <= e.start_x /\ e.x <= t.max.x

\* the markers active when the candidate e was met
ActiveAt(e) == {targets[e.active[k] + 1] : k \in 1 .. Len(e.active)}

\* C16: no candidate that lies within the x-range of a marker active at the
\* time is handed to the confirmation, and after a sampled row y the active
\* set holds exactly the markers found so far with max.y >= y: a marker stays
\* active until the end of the first sampled row below its max.y
ActiveMarkersSuppress ==
    /\ \A j \in 1 .. Len(scan_tried) :
           \A t \in ActiveAt(scan_tried[j]) : ~WithinMarker(scan_tried[j], t)
    /\ scan_pc \in {"rows", "done"} =>
           /\ \A k \in 1 .. Len(targets) :
                  (k - 1) \in Elems(active_targets) <=> scan_y - 4 <= targets[k].max.y
           /\ Elems(active_targets) \subseteq 0 .. Len(targets) - 1

\* a candidate within the only marker has been skipped on the row after the
\* one that found the marker, and the marker has since left the active set
CandidateSkippedInsideMarker ==
    /\ scan_pc = "done"
    /\ Len(targets) = 1
    /\ Len(scan_tried) = 1
    /\ active_targets = <<>>
    /\ \E j \in 1 .. Len(scan_skipped) :
           /\ scan_skipped[j].y = scan_tried[1].y + 4
           /\ scan_skipped[j].active = <<0>>
           /\ WithinMarker(scan_skipped[j], targets[1])

\* the first sampled row at or below row y
FirstSampled(y) == 4 * ((y + 3) \div 4)

\* the bitmap scanned is white but for one finder pattern of module m >= 3 at
\* (x0, y0), with at least one white pixel on every side
MarginedFinder(x0, y0, m) ==
    /\ x0 >= 1 /\ y0 >= 1
    /\ x0 + 7 * m < img.width
    /\ y0 + 7 * m < img.height
    /\ ~PxAt(img, y0 * img.width + x0)
    /\ PxAt(img, y0 * img.width + x0 - 1)
    /\ PxAt(img, (y0 - 1) * img.width + x0)
    /\ img = FinderBitmap(img.width, img.height, x0, y0, m, m)

\* C19: of one finder pattern of module 3 or more with a white margin the scan
\* returns exactly one marker: there is none before the first sampled row in
\* the pattern's centre block, one after it, found on that row, and the
\* later rows add none
OneMarkerPerFinder ==
    \A x0 \in 1 .. MaxOff, y0 \in 1 .. MaxOff, m \in 3 .. MaxModule :
        MarginedFinder(x0, y0, m) =>
            /\ scan_pc # "panic"
            /\ scan_pc \in {"rows", "done"} =>
                   IF scan_y > FirstSampled(y0 + 2 * m)
                   THEN /\ Len(targets) = 1
                        /\ Len(scan_tried) = 1
                        /\ scan_tried[1].y = FirstSampled(y0 + 2 * m)
                   ELSE targets = <<>>

\* a module-3 pattern at (1, 1) has been found on row 8, the candidate of
\* row 12 was suppressed, and the scan has returned the one marker
FinderFoundOnceOnFirstRow ==
    /\ scan_pc = "done"
    /\ MarginedFinder(1, 1, 3)
    /\ Len(targets) = 1
    /\ scan_tried[1].y = 8
    /\ {scan_skipped[j].y : j \in 1 .. Len(scan_skipped)} = {12}

====
